---- MODULE Spec2Model ----
(***************************************************************************)
(* A model of the narwhal node graph (src/src/node/graph.rs), its ordered  *)
(* multimap (src/src/util.rs) and the incremental renderer                 *)
(* (src/src/render/renderer.rs).                                           *)
(***************************************************************************)
EXTENDS Integers, Sequences, FiniteSets, TLC

\* ------------------------------------------------------------------ bounds
\* Greatest NodeRef the model lets add_node hand out.
MaxId == 2
\* Greatest NodeRef used when ordering.
MaxOrderId == 4
\* Greatest number of entries in the forward link table.
MaxLinks == 2
\* Greatest number of entries in the forward link table when ordering.
MaxOrderLinks == 3
\* Greatest port index used for links.
MaxPort == 1

\* Greatest NodeRef used when rendering.
MaxRenderId == 3
\* Greatest number of entries in the forward link table when rendering.
MaxRenderLinks == 3
\* Greatest number of render calls that reach the GC counter.
MaxRenders == 2
\* Greatest property content node_mut writes.
MaxProps == 2
\* Greatest NodeRef and number of links of the graphs that are edited and
\* ordered in turn.
MaxGraphId == 2
MaxGraphLinks == 2
\* Greatest NodeRef, number of links and number of render calls of the graphs
\* whose nodes may fail to evaluate; the greatest property content written.
MaxErrId == 3
MaxErrLinks == 2
MaxErrRenders == 2
MaxErrProps == 1
\* Greatest NodeRef, number of links and number of render calls of the render
\* graphs whose links may form cycles.
MaxCycleId == 3
MaxCycleLinks == 2
MaxCycleRenders == 1
\* Greatest NodeRef and number of links of the graphs that are rendered up
\* to and beyond a garbage collection.
MaxGcId == 2
MaxGcLinks == 1
\* Greatest NodeRef, number of links and number of render calls of the render
\* graphs with impure data nodes.
MaxImpureId == 3
MaxImpureLinks == 3
MaxImpureRenders == 2

\* Greatest NodeRef, number of links, property content and number of render
\* calls of the graphs whose dirty flags are set and cleared in any order.
MaxDirtyId == 2
MaxDirtyLinks == 1
MaxDirtyProps == 2
MaxDirtyRenders == 2

\* Greatest NodeRef, number of links, property content and number of render
\* calls of the render graphs that grow between the render calls.
MaxCacheId == 2
MaxCacheLinks == 1
MaxCacheProps == 2
MaxCacheRenders == 2

\* The number of bits of a NodeRef.  The program's NodeRef is a u64; the
\* model keeps its checked arithmetic on fewer bits, so that the greatest
\* representable id is within reach of add_node.
NodeRefBits == 3
\* The graphs whose nodes write lists of drawables.
MaxRasterId == 3
MaxRasterLinks == 2
MaxRasterRenders == 2
\* The graphs whose graphics nodes map the context.
MaxCtxId == 3
MaxCtxLinks == 3
MaxCtxRenders == 1
\* The graphs rendered while the node types are being registered.
MaxTypeId == 2
MaxTypeLinks == 1
MaxTypeProps == 1
MaxTypeRenders == 2
\* The graphs whose links change between the renders.
MaxRelinkId == 3
MaxRelinkLinks == 3
MaxRelinkRenders == 2
\* The graphs whose nodes change their type.
MaxRetypeId == 2
MaxRetypeLinks == 1
MaxRetypeRenders == 2

\* The node types of the graphs that are rendered.
RenderTypes == {"camera", "data", "image", "gfx"}

NodeRefs == 1..MaxId
OrderRefs == 1..MaxOrderId
GraphRefs == 1..MaxGraphId
Ports == 0..MaxPort

\* The graph: nodes, the forward and reverse link tables, the output node,
\* the cached order and the dirty set.
VARIABLES nodes, fwd, rev, io_node, order, dirty_nodes
\* The renderer: output cache, node instances, context cache, GC counter and
\* the names of the registered node types.
VARIABLES cache, insts, ctx_cache, cycle, node_types
\* History: the latest call, the NodeRefs add_node has returned so far, and
\* what happened since the latest successful render.
VARIABLES last, issued, since

gvars == <<nodes, fwd, rev, io_node, order, dirty_nodes>>
rvars == <<cache, insts, ctx_cache, cycle, node_types>>
vars == <<nodes, fwd, rev, io_node, order, dirty_nodes, cache, insts, ctx_cache, cycle,
          node_types, last, issued, since>>

\* Option<T>: None is the empty sequence, Some(x) the one-element sequence.
None == <<>>
Some(x) == <<x>>

\* ------------------------------------------------------------ generic helpers
Min(S) == CHOOSE x \in S : \A y \in S : x <= y
Max(S) == CHOOSE x \in S : \A y \in S : x >= y

RemoveAt(s, i) == SubSeq(s, 1, i - 1) \o SubSeq(s, i + 1, Len(s))
InsertAt(s, i, e) == SubSeq(s, 1, i - 1) \o <<e>> \o SubSeq(s, i, Len(s))
Range(s) == {s[i] : i \in 1..Len(s)}

\* ------------------------------------------------------------------ LinkKey
LinkKey(from_out, to_in) == [from_out |-> from_out, to_in |-> to_in]
Link(out_prop, in_prop) == [out_prop |-> out_prop, in_prop |-> in_prop]

\* LinkKey::swap
swap(key) == [from_out |-> key.to_in, to_in |-> key.from_out]

\* impl Ord for LinkKey: by to_in first, from_out second.  -1, 0, 1.
cmp(a, b) ==
    IF a.to_in < b.to_in THEN -1
    ELSE IF a.to_in > b.to_in THEN 1
    ELSE IF a.from_out < b.from_out THEN -1
    ELSE IF a.from_out > b.from_out THEN 1
    ELSE 0

\* ------------------------------------------------------------------- BSMap
\* A BSMap is a sequence of [key, value] entries kept sorted by key.  The two
\* binary searches of range_bounds return the partition points of a sorted
\* vector: the number of entries below the range and the number of entries
\* not above it.
LowerBound(s, key) == Cardinality({i \in 1..Len(s) : cmp(s[i].key, key) < 0})
UpperBound(s, key) == Cardinality({i \in 1..Len(s) : cmp(s[i].key, key) <= 0})

\* range_by_key(node, |item| &item.to_in): entries whose key has that to_in.
LowerBoundToIn(s, node) == Cardinality({i \in 1..Len(s) : s[i].key.to_in < node})
UpperBoundToIn(s, node) == Cardinality({i \in 1..Len(s) : s[i].key.to_in <= node})
range_by_to_in(s, node) == SubSeq(s, LowerBoundToIn(s, node) + 1, UpperBoundToIn(s, node))

\* BSMap::range(key)
range(s, key) == SubSeq(s, LowerBound(s, key) + 1, UpperBound(s, key))

\* BSMap::contains_key
contains_key(s, key) == \E i \in 1..Len(s) : s[i].key = key

\* BSMap::contains_entry
contains_entry(s, key, value) ==
    \E i \in 1..Len(range(s, key)) : range(s, key)[i].value = value

\* insert_value without its contains_entry test.
insert_value_unchecked(s, key, value) ==
    InsertAt(s, UpperBound(s, key) + 1, [key |-> key, value |-> value])

\* BSMap<_, _, ValueSet>::insert_value
insert_value(s, key, value) ==
    IF contains_entry(s, key, value) THEN s
    ELSE InsertAt(s, UpperBound(s, key) + 1, [key |-> key, value |-> value])

\* BSMap<_, _, SingleValue>::insert
insert(s, key, value) ==
    IF contains_key(s, key)
    THEN [i \in 1..Len(s) |-> IF s[i].key = key THEN [key |-> key, value |-> value] ELSE s[i]]
    ELSE InsertAt(s, LowerBound(s, key) + 1, [key |-> key, value |-> value])

\* BSMap<_, _, SingleValue>::remove
remove(s, key) ==
    IF contains_key(s, key)
    THEN RemoveAt(s, CHOOSE i \in 1..Len(s) : s[i].key = key)
    ELSE s

\* The 0-based position that `iter().skip(lower_bound).position(v == value)`
\* yields: it is counted from lower_bound and looks at the value only.  -1
\* stands for Option::None.
remove_value_position(s, key, value) ==
    LET lower_bound == LowerBound(s, key)
        hits == {i \in (lower_bound + 1)..Len(s) : s[i].value = value}
    IN  IF hits = {} THEN -1 ELSE Min(hits) - (lower_bound + 1)

\* BSMap<_, _, ValueSet>::remove_value: `self.0.remove(index)` takes the
\* position as an index into the whole vector.  Result: the map and whether
\* Some(_) was returned.
remove_value(s, key, value) ==
    LET index == remove_value_position(s, key, value)
    IN  IF index >= 0
        THEN [map |-> RemoveAt(s, index + 1), some |-> TRUE]
        ELSE [map |-> s, some |-> FALSE]

\* ------------------------------------------------------------------- Links
\* Links(forward, reverse): ls = [f |-> forward map, r |-> reverse map].

\* Links::get_ins: (from_out, link) of every forward entry into `key`.
get_ins(f, key) ==
    LET es == range_by_to_in(f, key)
    IN  [i \in 1..Len(es) |-> [node |-> es[i].key.from_out, link |-> es[i].value]]

RECURSIVE FlatMapOuts(_, _)
FlatMapOuts(f, rkeys) ==
    IF rkeys = <<>> THEN <<>>
    ELSE LET key == rkeys[1].key
             es == range(f, swap(key))
         IN  [i \in 1..Len(es) |-> [node |-> key.from_out, link |-> es[i].value]]
             \o FlatMapOuts(f, Tail(rkeys))

\* Links::get_outs: walks the reverse map, then the forward range of each key.
get_outs(f, r, key) == FlatMapOuts(f, range_by_to_in(r, key))

\* Links::insert
Links_insert(ls, from_out, to_in, link) ==
    [f |-> insert_value(ls.f, LinkKey(from_out, to_in), link),
     r |-> insert(ls.r, swap(LinkKey(from_out, to_in)), "unit")]

\* Links::remove
Links_remove(ls, from_out, to_in, link) ==
    LET key == LinkKey(from_out, to_in)
        rv == remove_value(ls.f, key, link)
    IN  IF rv.some
        THEN [f |-> rv.map,
              r |-> IF ~contains_key(rv.map, key) THEN remove(ls.r, swap(key)) ELSE ls.r,
              ret |-> TRUE]
        ELSE [f |-> ls.f, r |-> ls.r, ret |-> FALSE]

\* First loop of Links::remove_node over the collected links to the node.
RECURSIVE RemoveLinksTo(_, _)
RemoveLinksTo(ls, links) ==
    IF links = <<>> THEN ls
    ELSE RemoveLinksTo(
            [f |-> remove_value(ls.f, links[1].key, links[1].value).map,
             r |-> remove(ls.r, swap(links[1].key))],
            Tail(links))

\* Inner loop of the second half of Links::remove_node.
RECURSIVE RemoveValues(_, _)
RemoveValues(f, links) ==
    IF links = <<>> THEN f
    ELSE RemoveValues(remove_value(f, links[1].key, links[1].value).map, Tail(links))

\* Second loop of Links::remove_node over the collected reverse keys.
RECURSIVE RemoveLinksFrom(_, _)
RemoveLinksFrom(ls, rlinks) ==
    IF rlinks = <<>> THEN ls
    ELSE LET key == rlinks[1].key
         IN  RemoveLinksFrom(
                [f |-> RemoveValues(ls.f, range(ls.f, swap(key))),
                 r |-> remove(ls.r, key)],
                Tail(rlinks))

\* Links::remove_node
Links_remove_node(ls, node) ==
    LET ls1 == RemoveLinksTo(ls, range_by_to_in(ls.f, node))
    IN  RemoveLinksFrom(ls1, range_by_to_in(ls1.r, node))

\* ---------------------------------------------------------------- toposort
\* Result<(), (Vec<NodeRef>, bool)> together with the ToposortState it leaves.
Ok(st) == [ok |-> TRUE, st |-> st, err |-> <<>>, complete |-> FALSE]
Err(st, list, complete) == [ok |-> FALSE, st |-> st, err |-> list, complete |-> complete]

\* Graph::node_inputs: one item per link into the node, in table order.
node_inputs(f, node) == get_ins(f, node)

\* Graph::node_outputs
node_outputs(f, r, node) == get_outs(f, r, node)

\* toposort_revisit with the comparison against the output node negated.
toposort_revisit_negated(f, io, node, st) ==
    IF node # io
    THEN Ok(st)
    ELSE Err(st, <<node>>, FALSE)

\* toposort, the node is already in `visiting`: the output node is let
\* through, any other node starts a cycle report.
toposort_revisit(f, io, node, st) ==
    IF node = io
    THEN Ok(st)
    ELSE LET is_complete_cycle ==
                 \E i \in 1..Len(node_inputs(f, node)) : node_inputs(f, node)[i].node = node
         IN  Err(st, <<node>>, is_complete_cycle)

\* toposort_map_err without the test for the recurrence of the first node.
toposort_map_err_no_stop(r, node) ==
    IF ~r.complete
    THEN [r EXCEPT !.err = Append(r.err, node)]
    ELSE r

\* toposort, the closure given to map_err when an input's traversal failed.
toposort_map_err(r, node) ==
    IF ~r.complete
    THEN IF r.err[1] = node
         THEN [r EXCEPT !.complete = TRUE]
         ELSE [r EXCEPT !.err = Append(r.err, node)]
    ELSE r

\* toposort_finish putting the node at the front of the order.
toposort_finish_front(st, node) ==
    [st EXCEPT !.marked = st.marked \cup {node}, !.order = <<node>> \o st.order]

\* toposort, after all inputs succeeded: mark the node and push it.
toposort_finish(st, node) ==
    [st EXCEPT !.marked = st.marked \cup {node}, !.order = Append(st.order, node)]

RECURSIVE toposort(_, _, _, _), toposort_inputs(_, _, _, _, _)
\* Graph::toposort
toposort(f, io, node, st) ==
    IF node \in st.marked THEN Ok(st)
    ELSE IF node \in st.visiting THEN toposort_revisit(f, io, node, st)
    ELSE toposort_inputs(f, io, node, node_inputs(f, node),
                         [st EXCEPT !.visiting = st.visiting \cup {node}])

\* The `for (input, ..) in self.node_inputs(node)` loop of toposort.
toposort_inputs(f, io, node, inputs, st) ==
    IF inputs = <<>> THEN Ok(toposort_finish(st, node))
    ELSE LET r == toposort(f, io, inputs[1].node, st)
         IN  IF r.ok
             THEN toposort_inputs(f, io, node, Tail(inputs), r.st)
             ELSE toposort_map_err(r, node)

\* update_order starting its traversal at node 1 whatever the output is.
update_order_from_first(f, io) ==
    toposort(f, io, 1, [order |-> <<>>, visiting |-> {}, marked |-> {}])

\* Graph::update_order, as a value: the toposort from the output node.
update_order(f, io) ==
    toposort(f, io, io, [order |-> <<>>, visiting |-> {}, marked |-> {}])

\* ------------------------------------------------------ propagate_dirtiness
RECURSIVE propagate_loop(_, _, _, _)
\* The while loop of Graph::propagate_dirtiness over the VecDeque.
propagate_loop(f, r, queue, dirty) ==
    IF queue = <<>> THEN dirty
    ELSE LET node == Head(queue)
         IN  IF node \in dirty
             THEN propagate_loop(f, r, Tail(queue), dirty)
             ELSE LET outs == node_outputs(f, r, node)
                  IN  propagate_loop(f, r,
                          Tail(queue) \o [i \in 1..Len(outs) |-> outs[i].node],
                          dirty \cup {node})

RECURSIVE SortedSeq(_)
\* BSMap::iter over a NodeRef-keyed map: keys in increasing order.
SortedSeq(S) == IF S = {} THEN <<>> ELSE <<Min(S)>> \o SortedSeq(S \ {Min(S)})

\* ------------------------------------------------------------ the operations
\* `since`: ok says that a render has returned Ok and that only node_mut calls
\* followed it; touched holds the nodes those calls named; owed holds the
\* nodes that renders aborted by a failed eval have left unevaluated.
Mutated == [ok |-> FALSE, touched |-> {}, owed |-> {}]

\* `last` records the latest call: its name, its node argument (for add_node
\* the NodeRef it returned), its boolean result, for update_order the Cycle
\* payload, and for render its result, the evaluations it made in their order,
\* the node whose eval returned an error (0 when none did), the value of
\* `since` and the dirty nodes it started from.
NoOp ==
    [op |-> "new", arg |-> 0, ret |-> FALSE, cycle |-> <<>>, res |-> "", evals |-> <<>>,
     pre |-> Mutated, failed |-> 0, dirty0 |-> {}]

\* Graph::new
\* Graph::new and Renderer::new, but for the node types.
Constructed ==
    /\ nodes = <<>>
    /\ fwd = <<>>
    /\ rev = <<>>
    /\ io_node = 0
    /\ order = None
    /\ dirty_nodes = {}
    /\ last = NoOp
    /\ issued = {}
    /\ cache = <<>>
    /\ insts = <<>>
    /\ ctx_cache = <<>>
    /\ cycle = 0
    /\ since = Mutated

\* The node types an application registers right after Renderer::new, as
\* the examples do: the camera (a data node), a pure and an impure data node
\* that compute a number, a pure data node that supplies a texture, a data
\* node and a graphics node that write drawables, and two graphics nodes, one
\* of which maps the context.
RegisteredTypes ==
    {"camera", "data", "impure", "image", "gfx", "shape", "draw", "widen"}

\* The renderer as the examples set it up: built, its node types registered.
Init == Constructed /\ node_types = RegisteredTypes
\* The renderer as Renderer::new returns it: no node type is registered.
InitUnregistered == Constructed /\ node_types = {}

\* Node::empty(node_type), with the properties its type needs filled in.
\* props stands for the content of the whole property map; 0 is the empty map.
Node(node_type) == [node_type |-> node_type, props |-> 1]

\* An id computed from the number of nodes instead of the greatest key.
next_id_by_count(ns) == Cardinality(DOMAIN ns) + 1
\* The id add_node computes: greatest key + 1, or 1 for an empty map.
next_id(ns) == IF DOMAIN ns = {} THEN 1 ELSE Max(DOMAIN ns) + 1

\* The greatest value of a NodeRef (u64::MAX in the program).
NodeRefMax == 2^NodeRefBits - 1
\* The id as computed by an addition that wraps around at the width of a NodeRef.
checked_next_id_wrapping(ns) == Some(next_id(ns) % (NodeRefMax + 1))
\* Graph::add_node, its Option next_id: checked_add gives None when the
\* greatest key + 1 is not representable.
checked_next_id(ns) == IF next_id(ns) <= NodeRefMax THEN Some(next_id(ns)) ELSE None

\* Graph::add_node.  When next_id is None the call panics
\* (unimplemented!("ID overflow")) before it has changed the graph.
AddNode(node) ==
    IF checked_next_id(nodes) = None
    THEN /\ last' = [NoOp EXCEPT !.op = "add_node", !.res = "Panic"]
         /\ UNCHANGED <<nodes, fwd, rev, io_node, order, dirty_nodes, issued, since>>
         /\ UNCHANGED rvars
    ELSE \E id \in {checked_next_id(nodes)[1]} :
         /\ nodes' = [n \in DOMAIN nodes \cup {id} |-> IF n = id THEN node ELSE nodes[n]]
         /\ dirty_nodes' = dirty_nodes \cup {id}
         /\ last' = [NoOp EXCEPT !.op = "add_node", !.arg = id, !.ret = TRUE]
         /\ issued' = issued \cup {id}
         /\ since' = Mutated
         /\ UNCHANGED <<fwd, rev, io_node, order>>
         /\ UNCHANGED rvars

\* set_output without its call of invalidate_order.
SetOutput_order_kept(n) ==
    /\ io_node' = n
    /\ last' = [NoOp EXCEPT !.op = "set_output", !.arg = n]
    /\ since' = Mutated
    /\ UNCHANGED <<nodes, fwd, rev, dirty_nodes, issued, order>>
    /\ UNCHANGED rvars

\* Graph::set_output
SetOutput(n) ==
    /\ io_node' = n
    /\ order' = None
    /\ last' = [NoOp EXCEPT !.op = "set_output", !.arg = n]
    /\ since' = Mutated
    /\ UNCHANGED <<nodes, fwd, rev, dirty_nodes, issued>>
    /\ UNCHANGED rvars

\* node_mut marking the node dirty only when the caller changes a property.
NodeMut_diffing(n, props) ==
    /\ dirty_nodes' = IF n \in DOMAIN nodes /\ props # nodes[n].props
                       THEN dirty_nodes \cup {n} ELSE dirty_nodes
    /\ nodes' = IF n \in DOMAIN nodes THEN [nodes EXCEPT ![n].props = props] ELSE nodes
    /\ last' = [NoOp EXCEPT !.op = "node_mut", !.arg = n, !.ret = n \in DOMAIN nodes]
    /\ since' = [since EXCEPT !.touched = @ \cup {n}]
    /\ UNCHANGED <<fwd, rev, io_node, order, issued>>
    /\ UNCHANGED rvars

\* Graph::node_mut
\* together with what the caller does with the reference it gets: it leaves
\* the properties as they are or replaces them (props may equal the old ones).
NodeMut(n, props) ==
    /\ dirty_nodes' = dirty_nodes \cup {n}
    /\ nodes' = IF n \in DOMAIN nodes THEN [nodes EXCEPT ![n].props = props] ELSE nodes
    /\ last' = [NoOp EXCEPT !.op = "node_mut", !.arg = n, !.ret = n \in DOMAIN nodes]
    /\ since' = [since EXCEPT !.touched = @ \cup {n}]
    /\ UNCHANGED <<fwd, rev, io_node, order, issued>>
    /\ UNCHANGED rvars

\* Graph::node_mut, with a caller that assigns the public field node_type of
\* the node it gets.
NodeMutType(n, node_type) ==
    /\ dirty_nodes' = dirty_nodes \cup {n}
    /\ nodes' = IF n \in DOMAIN nodes THEN [nodes EXCEPT ![n].node_type = node_type] ELSE nodes
    /\ last' = [NoOp EXCEPT !.op = "node_mut", !.arg = n, !.ret = n \in DOMAIN nodes]
    /\ since' = [since EXCEPT !.touched = @ \cup {n}]
    /\ UNCHANGED <<fwd, rev, io_node, order, issued>>
    /\ UNCHANGED rvars

\* Graph::remove_node
RemoveNode(n) ==
    LET ls == Links_remove_node([f |-> fwd, r |-> rev], n)
    IN  /\ order' = None
        /\ fwd' = ls.f
        /\ rev' = ls.r
        /\ nodes' = [m \in DOMAIN nodes \ {n} |-> nodes[m]]
        /\ last' = [NoOp EXCEPT !.op = "remove_node", !.arg = n, !.ret = n \in DOMAIN nodes]
        /\ since' = Mutated
        /\ UNCHANGED <<io_node, dirty_nodes, issued>>
        /\ UNCHANGED rvars

\* Graph::link
LinkNodes(a, p, b, q) ==
    LET ls == Links_insert([f |-> fwd, r |-> rev], a, b, Link(p, q))
    IN  /\ order' = None
        /\ fwd' = ls.f
        /\ rev' = ls.r
        /\ last' = [NoOp EXCEPT !.op = "link"]
        /\ since' = Mutated
        /\ UNCHANGED <<nodes, io_node, dirty_nodes, issued>>
        /\ UNCHANGED rvars

\* Graph::unlink
Unlink(a, p, b, q) ==
    LET ls == Links_remove([f |-> fwd, r |-> rev], a, b, Link(p, q))
    IN  /\ order' = None
        /\ fwd' = ls.f
        /\ rev' = ls.r
        /\ last' = [NoOp EXCEPT !.op = "unlink", !.ret = ls.ret]
        /\ since' = Mutated
        /\ UNCHANGED <<nodes, io_node, dirty_nodes, issued>>
        /\ UNCHANGED rvars

\* update_order pushing onto the order it finds instead of a new vector.
UpdateOrder_appending ==
    LET r == update_order(fwd, io_node)
    IN  /\ order' = IF r.ok
                    THEN Some((IF order = None THEN <<>> ELSE order[1]) \o r.st.order)
                    ELSE order
        /\ last' = [NoOp EXCEPT !.op = "update_order", !.ret = r.ok, !.cycle = r.err]
        /\ UNCHANGED <<nodes, fwd, rev, io_node, dirty_nodes, issued, since>>
        /\ UNCHANGED rvars

\* Graph::update_order
UpdateOrder ==
    LET r == update_order(fwd, io_node)
    IN  /\ order' = IF r.ok THEN Some(r.st.order) ELSE order
        /\ last' = [NoOp EXCEPT !.op = "update_order", !.ret = r.ok, !.cycle = r.err]
        /\ UNCHANGED <<nodes, fwd, rev, io_node, dirty_nodes, issued, since>>
        /\ UNCHANGED rvars

\* Graph::propagate_dirtiness
PropagateDirtiness ==
    /\ dirty_nodes' = propagate_loop(fwd, rev, SortedSeq(dirty_nodes), {})
    /\ last' = [NoOp EXCEPT !.op = "propagate_dirtiness"]
    /\ since' = Mutated
    /\ UNCHANGED <<nodes, fwd, rev, io_node, order, issued>>
    /\ UNCHANGED rvars

\* Graph::mark_clean
MarkClean(n) ==
    /\ dirty_nodes' = dirty_nodes \ {n}
    /\ last' = [NoOp EXCEPT !.op = "mark_clean", !.arg = n]
    /\ since' = Mutated
    /\ UNCHANGED <<nodes, fwd, rev, io_node, order, issued>>
    /\ UNCHANGED rvars

\* ---------------------------------------------------------------- renderer
CAMERA_SCENE_INPUT_PROP == 0
CAMERA_DATA_OUTPUT_PROP == 0
CYCLES_UNTIL_GC == 128
\* Renderer::resolution, the value Renderer::new sets.
RESOLUTION == 1
\* The greatest value of Renderer::cycle, a u8.
CycleMax == 2^8 - 1

\* NodeInstance::Data or NodeInstance::Graphics, by the type that created it.
InstanceKind(t) == IF t \in {"gfx", "draw", "widen"} THEN "Graphics" ELSE "Data"
\* NodeInstance::wants_rasterized
wants_rasterized(t) == InstanceKind(t) = "Graphics"
\* NodeInstance::is_contextful
is_contextful(t) == InstanceKind(t) = "Graphics"
\* is_impure with the result of is_pure passed on without the negation.
is_impure_not_negated(t) == InstanceKind(t) = "Data" /\ t # "impure"
\* NodeInstance::is_impure; DataNode::is_pure is true unless overridden.
is_impure(t) == InstanceKind(t) = "Data" /\ t = "impure"

\* The Value variant a node of the type writes to its output port 0: "shape"
\* is a data node and "draw" a graphics node that write a list of drawables.
OutTag(t) ==
    IF t = "camera" THEN "any"
    ELSE IF t \in {"gfx", "image", "widen"} THEN "texture"
    ELSE IF t \in {"shape", "draw"} THEN "drawables"
    ELSE "float"

\* impl PartialEq for Value: two Any values are never equal.
ValueEq(v, w) == v.tag # "any" /\ v = w
\* Equality of two output maps (FnvHashMap<usize, Arc<Value>>).
OutputsEq(a, b) == DOMAIN a = DOMAIN b /\ \A port \in DOMAIN a : ValueEq(a[port], b[port])

\* The properties of a node; a node that is not in the graph has none.
NodeProps(n) == IF n \in DOMAIN nodes THEN nodes[n].props ELSE 0

\* DataNode::eval / GraphicsNode::eval of an instance of type t for node n,
\* given the linked part of its Input as a sequence of <<in_prop, value>>.
\* It fails on an empty property map; otherwise it writes to port 0 a value
\* that records the properties and inputs it was computed from.  The camera
\* reads its properties only, whatever its scene input holds.
Eval(t, n, inputs) ==
    IF NodeProps(n) = 0
    THEN [ok |-> FALSE, outputs |-> <<>>]
    ELSE [ok |-> TRUE,
          outputs |-> [port \in {0} |->
              [tag |-> OutTag(t), node |-> n, props |-> NodeProps(n),
               ins |-> IF t = "camera"
                       THEN SelectSeq(inputs, LAMBDA x : x[1] # CAMERA_SCENE_INPUT_PROP)
                       ELSE inputs]]]

RemoveKey(fn, k) == [x \in DOMAIN fn \ {k} |-> fn[x]]
PutKey(fn, k, v) == [x \in DOMAIN fn \cup {k} |-> IF x = k THEN v ELSE fn[x]]

\* The elements of a hash set in the order its iterator yields them: the
\* order is not specified, the model takes increasing or decreasing NodeRefs.
RECURSIVE SetOrder(_, _)
SetOrder(S, dir) ==
    IF S = {} THEN <<>>
    ELSE LET x == IF dir = "asc" THEN Min(S) ELSE Max(S)
         IN  <<x>> \o SetOrder(S \ {x}, dir)

\* What stands for the cache when the call that was to update it did not
\* return because its recursion overflowed the stack.
StackOverflowed == [n \in {-1} |-> <<>>]

RECURSIVE propagate_cache_invalidation(_, _, _), invalidate_outputs(_, _, _)
\* Renderer::propagate_cache_invalidation.  It calls itself for every
\* consumer of the node and keeps no record of the nodes it has been to;
\* depth counts the calls on the stack.  A chain of calls longer than the
\* number of links has followed some link twice, and the calls then follow
\* that loop of links without end: the stack overflows.
propagate_cache_invalidation(c, node, depth) ==
    IF depth > Len(fwd) THEN StackOverflowed
    ELSE invalidate_outputs(c, node_outputs(fwd, rev, node), depth)
\* its loop over the collected outputs of the node
invalidate_outputs(c, outs, depth) ==
    IF outs = <<>> \/ c = StackOverflowed THEN c
    ELSE invalidate_outputs(
            propagate_cache_invalidation(RemoveKey(c, outs[1].node), outs[1].node, depth + 1),
            Tail(outs), depth)

\* set_cache without the comparison with the cached outputs: the fresh
\* outputs always replace them and the invalidation always propagates.
set_cache_overwriting(c, node, outputs) ==
    propagate_cache_invalidation(PutKey(c, node, outputs), node, 0)

\* Renderer::set_cache
set_cache(c, node, outputs) ==
    IF node \in DOMAIN c /\ ~OutputsEq(c[node], outputs)
    THEN c
    ELSE propagate_cache_invalidation(PutKey(c, node, outputs), node, 0)

RECURSIVE collect_inputs(_, _, _, _)
\* Renderer::node_inputs, the loop over the links into the node: the values
\* found so far, or the input port of the first link whose producer has no
\* cached value for the linked output port.
collect_inputs(c, links, ignore_prop, acc) ==
    IF links = <<>> THEN [ok |-> TRUE, values |-> acc, missing |-> 0]
    ELSE LET input == links[1].node
             out_prop == links[1].link.out_prop
             in_prop == links[1].link.in_prop
         IN  IF ignore_prop # None /\ ignore_prop[1] = in_prop
             THEN collect_inputs(c, Tail(links), ignore_prop, acc)
             ELSE IF input \in DOMAIN c /\ out_prop \in DOMAIN c[input]
             THEN collect_inputs(c, Tail(links), ignore_prop,
                                 Append(acc, <<in_prop, c[input][out_prop]>>))
             ELSE [ok |-> FALSE, values |-> acc, missing |-> in_prop]

\* A literal property value of the content k.
Literal(k) == [tag |-> "float", node |-> 0, props |-> k, ins |-> <<>>]
\* Node::props as a map from property index to Value: the content 0 is the
\* empty map, any other content has a literal at every port.
node_props(node) ==
    IF NodeProps(node) = 0 THEN <<>> ELSE [port \in Ports |-> Literal(NodeProps(node))]

\* The map node_inputs builds from the values collected from the links: for
\* every input port that got a value, its values in the order they were pushed.
values_by_port(values) ==
    [port \in {values[i][1] : i \in 1..Len(values)} |->
        LET at_port == SelectSeq(values, LAMBDA x : x[1] = port)
        IN  [i \in 1..Len(at_port) |-> at_port[i][2]]]

\* The fallback loop with or_insert_with replaced by insert: a property
\* value replaces what the links gave.
fallback_props_overriding(inputs, node) ==
    [port \in DOMAIN inputs \cup DOMAIN node_props(node) |->
        IF port \in DOMAIN node_props(node) THEN <<node_props(node)[port]>> ELSE inputs[port]]
\* Renderer::node_inputs, the loop over the node's properties:
\* entry(k).or_insert_with(..) adds a property value where no entry exists.
fallback_props(inputs, node) ==
    [port \in DOMAIN inputs \cup DOMAIN node_props(node) |->
        IF port \in DOMAIN inputs THEN inputs[port] ELSE <<node_props(node)[port]>>]

\* Renderer::node_inputs: whether it returned Ok, the values collected from
\* the links, the port of its MissingInput error, and the map it returns.
renderer_node_inputs(c, node, ignore_prop) ==
    LET r == collect_inputs(c, node_inputs(fwd, node), ignore_prop, <<>>)
    IN  [ok |-> r.ok, values |-> r.values, missing |-> r.missing,
         input |-> fallback_props(values_by_port(r.values), node)]

\* A render call in progress: the renderer and graph fields it changes, the
\* evaluations it has made and, once it has failed, its error.
RenderStart ==
    [cache |-> cache, insts |-> insts, ctx |-> ctx_cache, cycle |-> cycle,
     dirty |-> dirty_nodes, order |-> order, evals |-> <<>>, res |-> "", arg |-> 0,
     failed |-> 0]
Fail(rs, res, arg) == [rs EXCEPT !.res = res, !.arg = arg]
\* The call does not return: its recursion overflowed the stack at the node
\* and the process was aborted.
Overflow(rs, node_ref) == Fail(rs, "StackOverflow", node_ref)
\* The `map_err(|e| RenderError::Eval(node_ref, e))?` after a call of eval.
FailEval(rs, node_ref) == [Fail(rs, "Eval", node_ref) EXCEPT !.failed = node_ref]

\* ensure_node_instance without its test for an existing instance.
ensure_node_instance_anew(rs, node_ref) ==
    IF node_ref \in DOMAIN nodes
    THEN IF nodes[node_ref].node_type \in node_types
         THEN [rs EXCEPT !.insts = PutKey(rs.insts, node_ref, nodes[node_ref].node_type)]
         ELSE Fail(rs, "MissingNodeType", nodes[node_ref].node_type)
    ELSE Fail(rs, "MissingNode", node_ref)

\* ensure_node_instance creating the instance without looking the type up.
ensure_node_instance_unregistered(rs, node_ref) ==
    IF node_ref \in DOMAIN rs.insts THEN rs
    ELSE IF node_ref \in DOMAIN nodes
    THEN [rs EXCEPT !.insts = PutKey(rs.insts, node_ref, nodes[node_ref].node_type)]
    ELSE Fail(rs, "MissingNode", node_ref)

\* Renderer::ensure_node_instance
ensure_node_instance(rs, node_ref) ==
    IF node_ref \in DOMAIN rs.insts THEN rs
    ELSE IF node_ref \in DOMAIN nodes
    THEN IF nodes[node_ref].node_type \in node_types
         THEN [rs EXCEPT !.insts = PutKey(rs.insts, node_ref, nodes[node_ref].node_type)]
         ELSE Fail(rs, "MissingNodeType", nodes[node_ref].node_type)
    ELSE Fail(rs, "MissingNode", node_ref)

\* Renderer::eval_one_camera
eval_one_camera(rs, node_ref, is_camera) ==
    LET inputs == renderer_node_inputs(rs.cache, node_ref,
                      IF is_camera THEN Some(CAMERA_SCENE_INPUT_PROP) ELSE None)
        rs1 == ensure_node_instance(rs, node_ref)
        out == Eval(rs1.insts[node_ref], node_ref, inputs.values)
        rs2 == [rs1 EXCEPT !.evals = Append(@, [node |-> node_ref, pass |-> "camera"])]
    IN  IF ~inputs.ok THEN Fail(rs, "Eval", node_ref)
        ELSE IF rs1.res # "" THEN rs1
        ELSE IF InstanceKind(rs1.insts[node_ref]) = "Graphics"
             THEN Fail(rs1, "NonDataCameraInput", node_ref)
        ELSE IF ~out.ok THEN FailEval(rs2, node_ref)
        ELSE LET c == set_cache(rs2.cache, node_ref, out.outputs)
             IN  IF c = StackOverflowed THEN Overflow(rs2, node_ref)
                 ELSE [rs2 EXCEPT !.cache = c]

\* The input nodes of eval_camera without the test that skips the scene
\* input of the output node.
camera_input_nodes_unfiltered(node_ref, is_camera) ==
    {node_inputs(fwd, node_ref)[i].node : i \in 1..Len(node_inputs(fwd, node_ref))}

\* The nodes eval_camera collects into input_nodes.
camera_input_nodes(node_ref, is_camera) ==
    {node_inputs(fwd, node_ref)[i].node :
        i \in {j \in 1..Len(node_inputs(fwd, node_ref)) :
                 ~(is_camera /\ node_inputs(fwd, node_ref)[j].link.in_prop
                                   = CAMERA_SCENE_INPUT_PROP)}}

RECURSIVE eval_camera(_, _, _, _, _), eval_camera_inputs(_, _, _, _)
\* Renderer::eval_camera; depth counts the calls of it that are on the
\* stack, and a chain of them longer than the number of links has followed
\* some link twice and goes on along that loop until the stack overflows.
eval_camera(rs, node_ref, is_camera, dir, depth) ==
    LET rs1 == eval_camera_inputs(rs, SetOrder(camera_input_nodes(node_ref, is_camera), dir),
                                  dir, depth + 1)
    IN  IF depth > Len(fwd) THEN Overflow(rs, node_ref)
        ELSE IF rs1.res # "" THEN rs1
        ELSE eval_one_camera(rs1, node_ref, is_camera)
\* its loop over input_nodes
eval_camera_inputs(rs, inputs, dir, depth) ==
    IF inputs = <<>> \/ rs.res # "" THEN rs
    ELSE eval_camera_inputs(eval_camera(rs, inputs[1], FALSE, dir, depth), Tail(inputs),
                            dir, depth)

RECURSIVE propagate_contexts(_, _, _, _, _), propagate_contexts_inputs(_, _, _, _, _)
\* Context: the camera, with the horizontal extent of its viewport held apart
\* from its other fields, and the resolution.
Context(camera, resolution) ==
    [camera |-> camera, offset |-> 0, width |-> 1, resolution |-> resolution]
\* Context::merge; the right edge of the other context is computed from the
\* left edge of this one.
merge(self, other) ==
    IF self = other THEN self
    ELSE LET left == self.offset
             right == left + self.width
             other_left == other.offset
             other_right == left + other.width
             offset == Min({left, other_left})
         IN  [self EXCEPT !.offset = offset,
                          !.width = Max({right, other_right}) - offset,
                          !.resolution = Max({self.resolution, other.resolution})]
\* GraphicsNode::map_context: the default leaves the context alone; a "widen"
\* node asks its inputs for a viewport one unit wider on both sides.
map_context(t, context) ==
    IF t = "widen"
    THEN [context EXCEPT !.offset = @ - 1, !.width = @ + 2]
    ELSE context

\* Renderer::propagate_contexts: the entry of a graphics node that has one is
\* merged with itself, not with the context that arrives.  depth counts the
\* calls on the stack as in eval_camera.
propagate_contexts(rs, node_ref, context, dir, depth) ==
    LET rs1 == ensure_node_instance(rs, node_ref)
        graphics == InstanceKind(rs1.insts[node_ref]) = "Graphics"
        rs2 == IF ~graphics THEN rs1
               ELSE IF node_ref \in DOMAIN rs1.ctx
               THEN [rs1 EXCEPT !.ctx = PutKey(rs1.ctx, node_ref,
                                               merge(rs1.ctx[node_ref], rs1.ctx[node_ref]))]
               ELSE [rs1 EXCEPT !.ctx = PutKey(rs1.ctx, node_ref, context)]
        mapped == IF graphics THEN map_context(rs1.insts[node_ref], context) ELSE context
        input_nodes == {node_inputs(fwd, node_ref)[i].node :
                            i \in 1..Len(node_inputs(fwd, node_ref))}
    IN  IF depth > Len(fwd) THEN Overflow(rs, node_ref)
        ELSE IF rs1.res # "" THEN rs1
        ELSE propagate_contexts_inputs(rs2, SetOrder(input_nodes, dir), mapped, dir,
                                       depth + 1)
\* its loop over input_nodes
propagate_contexts_inputs(rs, inputs, context, dir, depth) ==
    IF inputs = <<>> \/ rs.res # "" THEN rs
    ELSE propagate_contexts_inputs(propagate_contexts(rs, inputs[1], context, dir, depth),
                                   Tail(inputs), context, dir, depth)

RECURSIVE propagate_all_contexts(_, _, _, _)
\* Renderer::render, the loop over the order from its end to its start.
propagate_all_contexts(rs, ord, context, dir) ==
    IF ord = <<>> \/ rs.res # "" THEN rs
    ELSE propagate_all_contexts(propagate_contexts(rs, ord[Len(ord)], context, dir, 0),
                                SubSeq(ord, 1, Len(ord) - 1), context, dir)

\* The test of the dirty loop with the camera's flag left out of its second
\* disjunct: a contextful node counts as dirty in every render.
node_is_dirty_any_camera(rs, node_ref, camera_is_dirty) ==
    \/ node_ref \in rs.dirty
    \/ (node_ref \in DOMAIN rs.insts /\ is_contextful(rs.insts[node_ref]))
    \/ (node_ref \in DOMAIN rs.insts /\ is_impure(rs.insts[node_ref]))
\* The test of the dirty loop without its third disjunct: impure nodes are
\* treated like pure ones.
node_is_dirty_purity_ignored(rs, node_ref, camera_is_dirty) ==
    \/ node_ref \in rs.dirty
    \/ (camera_is_dirty /\ node_ref \in DOMAIN rs.insts /\ is_contextful(rs.insts[node_ref]))
\* The test of the dirty loop without its second disjunct: a dirty camera
\* does not make the contextful nodes dirty.
node_is_dirty_context_ignored(rs, node_ref, camera_is_dirty) ==
    \/ node_ref \in rs.dirty
    \/ (node_ref \in DOMAIN rs.insts /\ is_impure(rs.insts[node_ref]))
\* Renderer::render, the test of one node in the dirty loop.
node_is_dirty(rs, node_ref, camera_is_dirty) ==
    \/ node_ref \in rs.dirty
    \/ (camera_is_dirty /\ node_ref \in DOMAIN rs.insts /\ is_contextful(rs.insts[node_ref]))
    \/ (node_ref \in DOMAIN rs.insts /\ is_impure(rs.insts[node_ref]))

RECURSIVE resolve_dirty_keep_cache(_, _, _)
\* The dirty loop clearing the flags of the dirty nodes only: their cache
\* entries and those of their consumers stay.
resolve_dirty_keep_cache(rs, ord, camera_is_dirty) ==
    IF ord = <<>> THEN rs
    ELSE resolve_dirty_keep_cache(
            IF node_is_dirty(rs, ord[1], camera_is_dirty)
            THEN [rs EXCEPT !.dirty = @ \ {ord[1]}]
            ELSE rs,
            Tail(ord), camera_is_dirty)

RECURSIVE resolve_dirty_flags_kept(_, _, _)
\* The dirty loop purging the cache entries without the call of mark_clean.
resolve_dirty_flags_kept(rs, ord, camera_is_dirty) ==
    IF ord = <<>> \/ rs.res # "" THEN rs
    ELSE resolve_dirty_flags_kept(
            IF node_is_dirty(rs, ord[1], camera_is_dirty)
            THEN LET c == propagate_cache_invalidation(RemoveKey(rs.cache, ord[1]), ord[1], 0)
                 IN  IF c = StackOverflowed THEN Overflow(rs, ord[1])
                     ELSE [rs EXCEPT !.cache = c]
            ELSE rs,
            Tail(ord), camera_is_dirty)

RECURSIVE resolve_dirty(_, _, _)
\* Renderer::render, the loop that purges the dirty nodes of the order.
resolve_dirty(rs, ord, camera_is_dirty) ==
    IF ord = <<>> \/ rs.res # "" THEN rs
    ELSE resolve_dirty(
            IF node_is_dirty(rs, ord[1], camera_is_dirty)
            THEN LET c == propagate_cache_invalidation(RemoveKey(rs.cache, ord[1]), ord[1], 0)
                 IN  IF c = StackOverflowed THEN Overflow(rs, ord[1])
                     ELSE [rs EXCEPT !.dirty = @ \ {ord[1]}, !.cache = c]
            ELSE rs,
            Tail(ord), camera_is_dirty)

\* Renderer::eval_one, the output ports to rasterize: those linked to a
\* consumer with a graphics instance, holding drawables, of a node that has
\* a context of its own.
ports_to_rasterize(rs, node_ref, outputs) ==
    {node_outputs(fwd, rev, node_ref)[i].link.out_prop :
        i \in {j \in 1..Len(node_outputs(fwd, rev, node_ref)) :
            LET o == node_outputs(fwd, rev, node_ref)[j]
            IN  /\ o.node \in DOMAIN rs.insts
                /\ wants_rasterized(rs.insts[o.node])
                /\ o.link.out_prop \in DOMAIN outputs
                /\ outputs[o.link.out_prop].tag = "drawables"
                /\ node_ref \in DOMAIN rs.ctx}}

\* Renderer::eval_one
eval_one(rs, node_ref) ==
    LET inputs == renderer_node_inputs(rs.cache, node_ref, None)
        rs1 == ensure_node_instance(rs, node_ref)
        out == Eval(rs1.insts[node_ref], node_ref, inputs.values)
        rs2 == [rs1 EXCEPT !.evals = Append(@, [node |-> node_ref, pass |-> "main"])]
        raster == ports_to_rasterize(rs2, node_ref, out.outputs)
        outputs == [port \in DOMAIN out.outputs |->
                       IF port \in raster
                       THEN [out.outputs[port] EXCEPT !.tag = "texture"]
                       ELSE out.outputs[port]]
    IN  IF ~inputs.ok THEN Fail(rs, "Eval", node_ref)
        ELSE IF rs1.res # "" THEN rs1
        ELSE IF InstanceKind(rs1.insts[node_ref]) = "Graphics" /\ node_ref \notin DOMAIN rs1.ctx
             THEN Fail(rs1, "NoContext", node_ref)
        ELSE IF ~out.ok THEN FailEval(rs2, node_ref)
        ELSE LET c == set_cache(rs2.cache, node_ref, outputs)
             IN  IF c = StackOverflowed THEN Overflow(rs2, node_ref)
                 ELSE [rs2 EXCEPT !.cache = c]

RECURSIVE eval_all_no_stop(_, _)
\* The evaluation loop going on to the next node after a failed one.
eval_all_no_stop(rs, ord) ==
    IF ord = <<>> THEN rs
    ELSE eval_all_no_stop(IF ord[1] \in DOMAIN rs.cache THEN rs ELSE eval_one(rs, ord[1]),
                          Tail(ord))

RECURSIVE eval_all(_, _)
\* Renderer::render, the loop that evaluates the nodes without a cache entry.
eval_all(rs, ord) ==
    IF ord = <<>> \/ rs.res # "" THEN rs
    ELSE eval_all(IF ord[1] \in DOMAIN rs.cache THEN rs ELSE eval_one(rs, ord[1]), Tail(ord))

\* The collection with > in place of >= in its test of the counter.
collect_garbage_late(rs, ord) ==
    IF rs.cycle + 1 > CYCLES_UNTIL_GC
    THEN [rs EXCEPT !.cycle = 0,
                    !.cache = [n \in DOMAIN rs.cache \cap Range(ord) |-> rs.cache[n]],
                    !.insts = [n \in DOMAIN rs.insts \cap Range(ord) |-> rs.insts[n]]]
    ELSE [rs EXCEPT !.cycle = rs.cycle + 1]

\* The collection removing the unused cache entries only.
collect_garbage_cache_only(rs, ord) ==
    IF rs.cycle + 1 >= CYCLES_UNTIL_GC
    THEN [rs EXCEPT !.cycle = 0,
                    !.cache = [n \in DOMAIN rs.cache \cap Range(ord) |-> rs.cache[n]]]
    ELSE [rs EXCEPT !.cycle = rs.cycle + 1]

\* Renderer::render, the periodic collection of what is not in the order.
collect_garbage(rs, ord) ==
    IF rs.cycle + 1 >= CYCLES_UNTIL_GC
    THEN [rs EXCEPT !.cycle = 0,
                    !.cache = [n \in DOMAIN rs.cache \cap Range(ord) |-> rs.cache[n]],
                    !.insts = [n \in DOMAIN rs.insts \cap Range(ord) |-> rs.insts[n]]]
    ELSE [rs EXCEPT !.cycle = rs.cycle + 1]

\* Renderer::render, the end: the first value of the camera's scene input.
final_scene(rs, camera_ref) ==
    LET inputs == renderer_node_inputs(rs.cache, camera_ref, None)
        scene == SelectSeq(inputs.values, LAMBDA x : x[1] = CAMERA_SCENE_INPUT_PROP)
    IN  IF ~inputs.ok THEN Fail(rs, "Eval", camera_ref)
        ELSE IF scene # <<>> /\ scene[1][2].tag = "texture" THEN [rs EXCEPT !.res = "Ok"]
        ELSE Fail(rs, "NoScene", camera_ref)

\* The camera lookup taking whatever value the output node has cached.
camera_value_of_any_type(c, camera_ref) ==
    IF camera_ref \in DOMAIN c /\ CAMERA_DATA_OUTPUT_PROP \in DOMAIN c[camera_ref]
    THEN Some(c[camera_ref][CAMERA_DATA_OUTPUT_PROP])
    ELSE None
\* Renderer::render, the lookup of the Camera in the cache of the output
\* node: the value at CAMERA_DATA_OUTPUT_PROP if it is a Value::Any (the one
\* registered type that writes an Any writes a Camera).
camera_value(c, camera_ref) ==
    IF /\ camera_ref \in DOMAIN c
       /\ CAMERA_DATA_OUTPUT_PROP \in DOMAIN c[camera_ref]
       /\ c[camera_ref][CAMERA_DATA_OUTPUT_PROP].tag = "any"
    THEN Some(c[camera_ref][CAMERA_DATA_OUTPUT_PROP])
    ELSE None

\* Renderer::render from the camera value on.
render_with_order(rs, camera_ref, dir) ==
    LET ord == rs.order[1]
        has_camera == camera_value(rs.cache, camera_ref) # None
        context == Context(rs.cache[camera_ref][CAMERA_DATA_OUTPUT_PROP], RESOLUTION)
        rs1 == propagate_all_contexts([rs EXCEPT !.ctx = <<>>], ord, context, dir)
        camera_is_dirty == camera_ref \in rs1.dirty
        rs2 == resolve_dirty([rs1 EXCEPT !.dirty = @ \ {camera_ref}], ord, camera_is_dirty)
        rs3 == eval_all(rs2, ord)
    IN  IF ~has_camera THEN Fail(rs, "NoCameraData", camera_ref)
        ELSE IF rs1.res # "" THEN rs1
        ELSE IF rs2.res # "" THEN rs2
        ELSE IF rs3.res # "" THEN rs3
        ELSE final_scene(collect_garbage(rs3, ord), camera_ref)

\* Renderer::render with update_order called ahead of the camera pre-pass.
render_order_first(dir) ==
    LET camera_ref == io_node
        uo == update_order(fwd, io_node)
        rs0 == RenderStart
        rs1 == eval_camera(rs0, camera_ref, TRUE, dir, 0)
        rs2 == IF rs1.order = None /\ uo.ok THEN [rs1 EXCEPT !.order = Some(uo.st.order)] ELSE rs1
    IN  IF rs0.order = None /\ ~uo.ok THEN Fail(rs0, "OrderError", 0)
        ELSE IF rs1.res # "" THEN rs1
        ELSE render_with_order(rs2, camera_ref, dir)
\* Renderer::render as a value: the state the call leaves and its result.
render(dir) ==
    LET camera_ref == io_node
        rs1 == eval_camera(RenderStart, camera_ref, TRUE, dir, 0)
        uo == update_order(fwd, io_node)
        rs2 == IF rs1.order = None /\ uo.ok THEN [rs1 EXCEPT !.order = Some(uo.st.order)] ELSE rs1
    IN  IF rs1.res # "" THEN rs1
        ELSE IF rs1.order = None /\ ~uo.ok THEN Fail(rs1, "OrderError", 0)
        ELSE render_with_order(rs2, camera_ref, dir)

\* The links as (source, destination) pairs.
Edges == {<<fwd[i].key.from_out, fwd[i].key.to_in>> : i \in 1..Len(fwd)}
Evaluated(evals) == {evals[i].node : i \in 1..Len(evals)}
Succs(S) == {e[2] : e \in {d \in Edges : d[1] \in S}}
RECURSIVE ForwardClosure(_)
ForwardClosure(S) == IF Succs(S) \subseteq S THEN S ELSE ForwardClosure(S \cup Succs(S))

\* The nodes whose eval returned Ok in the call.
EvaluatedOk(rs) == Evaluated(rs.evals) \ {rs.failed}
\* The nodes an aborted call leaves to a later one: those of its order that
\* were dirty or downstream of a dirty node when it started and that it did
\* not evaluate successfully.
LeftOver(rs) ==
    IF rs.failed # 0 /\ rs.order # None
    THEN (Range(rs.order[1]) \cap ForwardClosure(dirty_nodes)) \ EvaluatedOk(rs)
    ELSE {}

\* Renderer::render
Render(dir) ==
    \E rs \in {render(dir)} :
        /\ cache' = rs.cache
        /\ insts' = rs.insts
        /\ ctx_cache' = rs.ctx
        /\ cycle' = rs.cycle
        /\ node_types' = node_types
        /\ dirty_nodes' = rs.dirty
        /\ order' = rs.order
        /\ last' = [NoOp EXCEPT !.op = "render", !.res = rs.res, !.arg = rs.arg,
                                !.evals = rs.evals, !.pre = since,
                                !.failed = rs.failed, !.dirty0 = dirty_nodes]
        /\ since' = [ok |-> rs.res = "Ok", touched |-> {},
                     owed |-> (since.owed \ EvaluatedOk(rs)) \cup LeftOver(rs)]
        /\ UNCHANGED <<nodes, fwd, rev, io_node, issued>>

\* Renderer::add_node_type
AddNodeType(name) ==
    /\ node_types' = node_types \cup {name}
    /\ last' = [NoOp EXCEPT !.op = "add_node_type"]
    /\ UNCHANGED <<cache, insts, ctx_cache, cycle, issued, since>>
    /\ UNCHANGED gvars

\* The graph driven through its node and link operations.
Next ==
    \/ next_id(nodes) <= MaxId /\ AddNode(Node("data"))
    \/ \E n \in NodeRefs : RemoveNode(n)
    \/ \E a \in DOMAIN nodes, b \in DOMAIN nodes, p \in Ports :
          Len(Links_insert([f |-> fwd, r |-> rev], a, b, Link(p, 0)).f) <= MaxLinks
          /\ LinkNodes(a, p, b, 0)
    \/ \E a \in NodeRefs, b \in NodeRefs, p \in Ports : Unlink(a, p, b, 0)

Spec == Init /\ [][Next]_vars

\* The graph driven through linking, output selection and ordering.
OrderNext ==
    \/ \E a \in OrderRefs, b \in OrderRefs :
          Len(Links_insert([f |-> fwd, r |-> rev], a, b, Link(0, 0)).f) <= MaxOrderLinks
          /\ LinkNodes(a, 0, b, 0)
    \/ \E n \in OrderRefs : SetOutput(n)
    \/ UpdateOrder

OrderSpec == Init /\ [][OrderNext]_vars

\* The renderer driven through a bounded number of render calls on a graph
\* that is built before the first of them and mutated with node_mut after.
\* As in examples/render_test.rs the camera is the first node added; the
\* graphs are kept acyclic by linking later nodes to earlier ones only.
RenderNext ==
    \/ \E t \in RenderTypes :
          /\ cycle = 0 /\ cache = <<>> /\ next_id(nodes) <= MaxRenderId
          /\ (t = "camera") <=> (nodes = <<>>)
          /\ AddNode(Node(t))
    \/ \E a \in DOMAIN nodes, b \in DOMAIN nodes, q \in Ports :
          /\ cycle = 0 /\ cache = <<>> /\ a > b
          /\ Len(Links_insert([f |-> fwd, r |-> rev], a, b, Link(0, q)).f) <= MaxRenderLinks
          /\ LinkNodes(a, 0, b, q)
    \/ \E n \in DOMAIN nodes : cycle = 0 /\ cache = <<>> /\ SetOutput(n)
    \/ \E n \in DOMAIN nodes, props \in 1..MaxProps : cycle > 0 /\ NodeMut(n, props)
    \/ \E dir \in {"asc", "desc"} : cycle < MaxRenders /\ Render(dir)

RenderSpec == Init /\ [][RenderNext]_vars

\* A render graph whose nodes may be given an empty property map, on which
\* eval returns an error, and a filled one again.
ErrNext ==
    \/ \E t \in {"camera", "data", "gfx"} :
          /\ cycle = 0 /\ cache = <<>> /\ insts = <<>>
          /\ next_id(nodes) <= MaxErrId
          /\ (t = "camera") <=> (nodes = <<>>)
          /\ AddNode(Node(t))
    \/ \E a \in DOMAIN nodes, b \in DOMAIN nodes, q \in Ports :
          /\ cycle = 0 /\ cache = <<>> /\ insts = <<>>
          /\ a > b
          /\ Len(Links_insert([f |-> fwd, r |-> rev], a, b, Link(0, q)).f) <= MaxErrLinks
          /\ LinkNodes(a, 0, b, q)
    \/ \E n \in DOMAIN nodes : cycle = 0 /\ cache = <<>> /\ insts = <<>> /\ SetOutput(n)
    \/ \E n \in DOMAIN nodes, props \in 0..MaxErrProps : NodeMut(n, props)
    \/ \E dir \in {"asc", "desc"} : cycle < MaxErrRenders /\ Render(dir)

ErrSpec == Init /\ [][ErrNext]_vars

\* A render graph linked in any direction, so that its links may form
\* cycles, and rendered.  A render whose recursion overflows the stack aborts
\* the process: nothing is called after it.
CycleNext ==
    \/ \E t \in {"camera", "data", "gfx"} :
          /\ last.res # "StackOverflow" /\ cycle = 0
          /\ next_id(nodes) <= MaxCycleId
          /\ (t = "camera") <=> (nodes = <<>>)
          /\ AddNode(Node(t))
    \/ \E a \in DOMAIN nodes, b \in DOMAIN nodes, q \in Ports :
          /\ last.res # "StackOverflow" /\ cycle = 0
          /\ Len(Links_insert([f |-> fwd, r |-> rev], a, b, Link(0, q)).f) <= MaxCycleLinks
          /\ LinkNodes(a, 0, b, q)
    \/ \E n \in DOMAIN nodes : last.res # "StackOverflow" /\ cycle = 0 /\ SetOutput(n)
    \/ \E dir \in {"asc", "desc"} :
          last.res # "StackOverflow" /\ cycle < MaxCycleRenders /\ Render(dir)

CycleSpec == Init /\ [][CycleNext]_vars

\* A render graph that is rendered again and again, through the collections
\* of every CYCLES_UNTIL_GC-th call, and edited (nodes added and removed, the
\* output moved, links made) before the first render of a period and before
\* the one that collects.
GcEditable == cycle \in {0, CYCLES_UNTIL_GC - 1}
GcNext ==
    \/ \E t \in {"camera", "gfx"} :
          GcEditable /\ next_id(nodes) <= MaxGcId /\ AddNode(Node(t))
    \/ \E n \in DOMAIN nodes : GcEditable /\ RemoveNode(n)
    \/ \E a \in DOMAIN nodes, b \in DOMAIN nodes :
          /\ GcEditable
          /\ a > b
          /\ Len(Links_insert([f |-> fwd, r |-> rev], a, b, Link(0, 0)).f) <= MaxGcLinks
          /\ LinkNodes(a, 0, b, 0)
    \/ \E n \in DOMAIN nodes : GcEditable /\ SetOutput(n)
    \/ Render("asc")

GcSpec == Init /\ [][GcNext]_vars

\* A render graph with pure and impure data nodes, built, rendered, touched
\* by node_mut (the properties stay as they are) and rendered again.
ImpureNext ==
    \/ \E t \in {"camera", "data", "impure", "gfx"} :
          /\ cycle = 0 /\ cache = <<>> /\ insts = <<>>
          /\ next_id(nodes) <= MaxImpureId
          /\ (t = "camera") <=> (nodes = <<>>)
          /\ AddNode(Node(t))
    \/ \E a \in DOMAIN nodes, b \in DOMAIN nodes, q \in Ports :
          /\ cycle = 0 /\ cache = <<>> /\ insts = <<>>
          /\ a > b
          /\ Len(Links_insert([f |-> fwd, r |-> rev], a, b, Link(0, q)).f) <= MaxImpureLinks
          /\ LinkNodes(a, 0, b, q)
    \/ \E n \in DOMAIN nodes : cycle = 0 /\ cache = <<>> /\ insts = <<>> /\ SetOutput(n)
    \/ \E n \in DOMAIN nodes : cycle > 0 /\ NodeMut(n, nodes[n].props)
    \/ \E dir \in {"asc", "desc"} : cycle < MaxImpureRenders /\ Render(dir)

ImpureSpec == Init /\ [][ImpureNext]_vars

\* A graph that is edited, ordered and has its dirtiness propagated in any
\* interleaving; every link joins output 0 to input 0.
GraphNext ==
    \/ next_id(nodes) <= MaxGraphId /\ AddNode(Node("data"))
    \/ \E n \in GraphRefs : RemoveNode(n)
    \/ \E a \in GraphRefs, b \in GraphRefs :
          Len(Links_insert([f |-> fwd, r |-> rev], a, b, Link(0, 0)).f) <= MaxGraphLinks
          /\ LinkNodes(a, 0, b, 0)
    \/ \E a \in GraphRefs, b \in GraphRefs : Unlink(a, 0, b, 0)
    \/ \E n \in GraphRefs : SetOutput(n)
    \/ UpdateOrder
    \/ PropagateDirtiness
    \/ \E n \in GraphRefs : MarkClean(n)

GraphSpec == Init /\ [][GraphNext]_vars

\* A render graph whose nodes are mutated (with or without a change of their
\* properties), marked clean, removed and rendered in any interleaving;
\* node_mut is also called with the NodeRef of a node that is not there.
DirtyNext ==
    \/ \E t \in {"camera", "gfx"} : next_id(nodes) <= MaxDirtyId /\ AddNode(Node(t))
    \/ \E n \in DOMAIN nodes : RemoveNode(n)
    \/ \E a \in DOMAIN nodes, b \in DOMAIN nodes :
          /\ a > b
          /\ Len(Links_insert([f |-> fwd, r |-> rev], a, b, Link(0, 0)).f) <= MaxDirtyLinks
          /\ LinkNodes(a, 0, b, 0)
    \/ \E n \in DOMAIN nodes : SetOutput(n)
    \/ \E n \in 1..MaxDirtyId, props \in 1..MaxDirtyProps : NodeMut(n, props)
    \/ \E n \in 1..MaxDirtyId : MarkClean(n)
    \/ PropagateDirtiness
    \/ \E dir \in {"asc", "desc"} : cycle < MaxDirtyRenders /\ Render(dir)

DirtySpec == Init /\ [][DirtyNext]_vars

\* A render graph that is extended by nodes and links, mutated with node_mut
\* and rendered in any interleaving: a render meets nodes that have no cache
\* entry yet while their consumers have one.
CacheNext ==
    \/ \E t \in {"camera", "gfx"} : next_id(nodes) <= MaxCacheId /\ AddNode(Node(t))
    \/ \E a \in DOMAIN nodes, b \in DOMAIN nodes :
          /\ a > b
          /\ Len(Links_insert([f |-> fwd, r |-> rev], a, b, Link(0, 0)).f) <= MaxCacheLinks
          /\ LinkNodes(a, 0, b, 0)
    \/ \E n \in DOMAIN nodes : SetOutput(n)
    \/ \E n \in DOMAIN nodes, props \in 1..MaxCacheProps : NodeMut(n, props)
    \/ \E dir \in {"asc", "desc"} : cycle < MaxCacheRenders /\ Render(dir)

CacheSpec == Init /\ [][CacheNext]_vars

\* A graph to which nodes are added until the ids run out, and from which
\* nodes are removed; the panic of add_node ends the run of the program.
OverflowNext ==
    \/ last.res # "Panic" /\ AddNode(Node("data"))
    \/ \E n \in DOMAIN nodes : last.res # "Panic" /\ RemoveNode(n)

OverflowSpec == Init /\ [][OverflowNext]_vars

\* A render graph whose nodes write lists of drawables, built from data and
\* graphics producers and consumers, and rendered while it is built.
RasterNext ==
    \/ \E t \in {"camera", "shape", "draw", "gfx"} :
          next_id(nodes) <= MaxRasterId /\ AddNode(Node(t))
    \/ \E a \in DOMAIN nodes, b \in DOMAIN nodes :
          /\ a > b
          /\ Len(Links_insert([f |-> fwd, r |-> rev], a, b, Link(0, 0)).f) <= MaxRasterLinks
          /\ LinkNodes(a, 0, b, 0)
    \/ \E n \in DOMAIN nodes : SetOutput(n)
    \/ \E dir \in {"asc", "desc"} : cycle < MaxRasterRenders /\ Render(dir)

RasterSpec == Init /\ [][RasterNext]_vars

\* A render graph of graphics nodes, some of which widen the viewport they
\* ask of their inputs, built and rendered.
CtxNext ==
    \/ \E t \in {"camera", "gfx", "widen"} :
          next_id(nodes) <= MaxCtxId /\ AddNode(Node(t))
    \/ \E a \in DOMAIN nodes, b \in DOMAIN nodes :
          /\ a > b
          /\ Len(Links_insert([f |-> fwd, r |-> rev], a, b, Link(0, 0)).f) <= MaxCtxLinks
          /\ LinkNodes(a, 0, b, 0)
    \/ \E n \in DOMAIN nodes : SetOutput(n)
    \/ \E dir \in {"asc", "desc"} : cycle < MaxCtxRenders /\ Render(dir)

CtxSpec == Init /\ [][CtxNext]_vars

\* A renderer that starts without node types; the types are registered while
\* the graph is built, touched with node_mut and rendered.
TypeNext ==
    \/ \E t \in {"camera", "gfx"} : AddNodeType(t)
    \/ \E t \in {"camera", "gfx"} : next_id(nodes) <= MaxTypeId /\ AddNode(Node(t))
    \/ \E a \in DOMAIN nodes, b \in DOMAIN nodes :
          /\ a > b
          /\ Len(Links_insert([f |-> fwd, r |-> rev], a, b, Link(0, 0)).f) <= MaxTypeLinks
          /\ LinkNodes(a, 0, b, 0)
    \/ \E n \in DOMAIN nodes : SetOutput(n)
    \/ \E n \in DOMAIN nodes, props \in 1..MaxTypeProps : NodeMut(n, props)
    \/ \E dir \in {"asc", "desc"} : cycle < MaxTypeRenders /\ Render(dir)

TypeSpec == InitUnregistered /\ [][TypeNext]_vars

\* A render graph whose links are made and removed between the renders.
RelinkNext ==
    \/ \E t \in {"camera", "gfx"} : next_id(nodes) <= MaxRelinkId /\ AddNode(Node(t))
    \/ \E a \in DOMAIN nodes, b \in DOMAIN nodes :
          /\ a > b
          /\ Len(Links_insert([f |-> fwd, r |-> rev], a, b, Link(0, 0)).f) <= MaxRelinkLinks
          /\ LinkNodes(a, 0, b, 0)
    \/ \E a \in DOMAIN nodes, b \in DOMAIN nodes : Unlink(a, 0, b, 0)
    \/ \E n \in DOMAIN nodes : SetOutput(n)
    \/ \E dir \in {"asc", "desc"} : cycle < MaxRelinkRenders /\ Render(dir)

RelinkSpec == Init /\ [][RelinkNext]_vars

\* A render graph whose nodes are given another node type, removed and added
\* again between the renders.
RetypeNext ==
    \/ \E t \in {"camera", "gfx"} : next_id(nodes) <= MaxRetypeId /\ AddNode(Node(t))
    \/ \E n \in DOMAIN nodes : RemoveNode(n)
    \/ \E a \in DOMAIN nodes, b \in DOMAIN nodes :
          /\ a > b
          /\ Len(Links_insert([f |-> fwd, r |-> rev], a, b, Link(0, 0)).f) <= MaxRetypeLinks
          /\ LinkNodes(a, 0, b, 0)
    \/ \E n \in DOMAIN nodes : SetOutput(n)
    \/ \E n \in DOMAIN nodes, t \in {"camera", "gfx"} : NodeMutType(n, t)
    \/ \E dir \in {"asc", "desc"} : cycle < MaxRetypeRenders /\ Render(dir)

RetypeSpec == Init /\ [][RetypeNext]_vars

\* ------------------------------------------------- graph-theoretic vocabulary
\* The links as full tuples.
LinkTuples(f) ==
    {<<f[i].key.from_out, f[i].value.out_prop, f[i].key.to_in, f[i].value.in_prop>> :
        i \in 1..Len(f)}
ReverseKeys(r) == {r[i].key : i \in 1..Len(r)}

Preds(S) == {e[1] : e \in {d \in Edges : d[2] \in S}}
RECURSIVE BackwardClosure(_)
BackwardClosure(S) == IF Preds(S) \subseteq S THEN S ELSE BackwardClosure(S \cup Preds(S))
RECURSIVE BackwardClosureAvoiding(_, _)
BackwardClosureAvoiding(S, x) ==
    IF (Preds(S) \ {x}) \subseteq S THEN S
    ELSE BackwardClosureAvoiding(S \cup (Preds(S) \ {x}), x)

\* The nodes backward-reachable from the output node, the output included.
OutputReachable == BackwardClosure({io_node})
\* n lies on a cycle of links.
OnCycle(n) == n \in BackwardClosure(Preds({n}))
\* n lies on a cycle of links that does not pass through x.
OnCycleAvoiding(n, x) == n # x /\ n \in BackwardClosureAvoiding(Preds({n}) \ {x}, x)
OutputReachableCycle == \E n \in OutputReachable : OnCycle(n)
CycleOffOutput == \E n \in OutputReachable : OnCycleAvoiding(n, io_node)

PositionIn(s, n) == CHOOSE i \in 1..Len(s) : s[i] = n
NoDuplicates(s) == \A i \in 1..Len(s), j \in 1..Len(s) : s[i] = s[j] => i = j

\* s lists exactly the nodes backward-reachable from the output, once each.
ListsOutputReachable(s) == Range(s) = OutputReachable /\ NoDuplicates(s)
\* In s the source of every link in From comes before its destination.
ProducersFirst(s, From) ==
    \A e \in Edges :
        (e[1] \in From /\ e[1] \in Range(s) /\ e[2] \in Range(s)) =>
            PositionIn(s, e[1]) < PositionIn(s, e[2])
\* The order, when there is one, is a valid order of the reachable nodes;
\* and the same with the links that leave the output node left out.
OrderIsValid ==
    order # None =>
        ListsOutputReachable(order[1]) /\ ProducersFirst(order[1], GraphRefs)
OrderIsValidExceptOutputLinks ==
    order # None =>
        ListsOutputReachable(order[1]) /\ ProducersFirst(order[1], GraphRefs \ {io_node})
\* The operations that edit the links, the nodes or the output.
InvalidatingOps == {"link", "unlink", "remove_node", "set_output"}

\* ------------------------------------------------------------------- claims

\* C1: when the nodes backward-reachable from the output form an acyclic
\* sub-graph, update_order returns Ok and every link a->b with both ends in
\* the order has a at a strictly smaller index than b.
C1_AcyclicOrderRespectsLinks ==
    (last.op = "update_order" /\ ~OutputReachableCycle) =>
        /\ last.ret
        /\ order # None
        /\ \A e \in Edges :
              (e[1] \in Range(order[1]) /\ e[2] \in Range(order[1])) =>
                  PositionIn(order[1], e[1]) < PositionIn(order[1], e[2])

\* C1 witness: an acyclic graph of at least three links was ordered into at
\* least three nodes.
C1_Witness ==
    /\ last.op = "update_order"
    /\ ~OutputReachableCycle
    /\ last.ret
    /\ order # None
    /\ Len(order[1]) >= 3
    /\ Cardinality({e \in Edges : e[1] \in Range(order[1]) /\ e[2] \in Range(order[1])}) >= 3

\* C2 as stated: whenever some cycle lies among the nodes backward-reachable
\* from the output, a cycle through the output itself included, update_order
\* returns Err(Cycle) and never Ok.
C2_AnyReachableCycleFails ==
    (last.op = "update_order" /\ OutputReachableCycle) => ~last.ret

\* C2 amended: whenever some cycle that does not pass through the output node
\* lies among the nodes backward-reachable from the output, update_order
\* returns Err(Cycle) and never Ok.
C2_CycleOffOutputFails ==
    (last.op = "update_order" /\ CycleOffOutput) => (~last.ret /\ last.cycle # <<>>)

\* C2 witness: update_order failed on a graph with a cycle off the output.
C2_Witness ==
    /\ last.op = "update_order"
    /\ CycleOffOutput
    /\ ~last.ret
    /\ io_node \notin Range(last.cycle)

\* C3: the list of Err(Cycle(list)) is non-empty, holds no node twice and is a
\* closed loop: each listed node links to the next and the last to the first.
C3_CycleIsClosedLoop ==
    (last.op = "update_order" /\ ~last.ret) =>
        LET c == last.cycle
        IN  /\ Len(c) > 0
            /\ NoDuplicates(c)
            /\ \A i \in 1..Len(c) : <<c[i], c[(i % Len(c)) + 1]>> \in Edges

\* C3 witness: a reported cycle of more than one node, reached from an
\* output that is not part of it.
C3_Witness ==
    /\ last.op = "update_order"
    /\ ~last.ret
    /\ Len(last.cycle) >= 2
    /\ io_node \in OrderRefs \ Range(last.cycle)

\* C4: unlink(a,p,b,q) removes exactly that link and returns true when it
\* exists, returns false and removes nothing when it does not; and no link
\* disappears except by unlink of that link or removal of an endpoint node.
C4_UnlinkRemovesExactlyThatLink ==
    [][/\ \A a \in NodeRefs, b \in NodeRefs, p \in Ports :
            Unlink(a, p, b, 0) =>
                IF <<a, p, b, 0>> \in LinkTuples(fwd)
                THEN last'.ret /\ LinkTuples(fwd') = LinkTuples(fwd) \ {<<a, p, b, 0>>}
                ELSE ~last'.ret /\ LinkTuples(fwd') = LinkTuples(fwd)
       /\ \A l \in LinkTuples(fwd) \ LinkTuples(fwd') :
            \/ Unlink(l[1], l[2], l[3], l[4])
            \/ RemoveNode(l[1])
            \/ RemoveNode(l[3])]_vars

\* C5: the reverse index has an entry for (source a, destination b) exactly
\* when the forward index holds a link from a to b, so node_outputs(a) lists
\* b exactly when node_inputs(b) lists a.
C5_IndicesAgree ==
    \A a \in NodeRefs, b \in NodeRefs :
        /\ (swap(LinkKey(a, b)) \in ReverseKeys(rev)) <=> (<<a, b>> \in Edges)
        /\ (\E i \in 1..Len(node_outputs(fwd, rev, a)) : node_outputs(fwd, rev, a)[i].node = b)
             <=> (\E i \in 1..Len(node_inputs(fwd, b)) : node_inputs(fwd, b)[i].node = a)

\* C6: after remove_node(n) no link with n as source or destination remains
\* in either index, and every link not incident to n is still in both.
C6_RemoveNodeRemovesIncidentLinks ==
    [][\A n \in NodeRefs :
          RemoveNode(n) =>
              /\ \A l \in LinkTuples(fwd') : l[1] # n /\ l[3] # n
              /\ \A k \in ReverseKeys(rev') : k.from_out # n /\ k.to_in # n
              /\ \A l \in LinkTuples(fwd) :
                    (l[1] # n /\ l[3] # n) =>
                        /\ l \in LinkTuples(fwd')
                        /\ swap(LinkKey(l[1], l[3])) \in ReverseKeys(rev')]_vars

\* C7: a NodeRef returned by add_node is never equal to one returned by an
\* earlier add_node call, the refs of removed nodes included.
C7_NodeRefNeverReused ==
    [][AddNode(Node("data")) => last'.arg \notin issued]_vars

\* --------------------------------------------------------- renderer claims
\* The nodes a render call evaluated, in either pass.
\* n and the nodes downstream of n.
Downstream(n) == ForwardClosure({n})

\* The cache entry of n is what its instance computes from the node's present
\* properties and the present cache entries of its producers.
FreshEntry(n) ==
    /\ n \in DOMAIN cache
    /\ n \in DOMAIN insts
    /\ renderer_node_inputs(cache, n, None).ok
    /\ Eval(insts[n], n, renderer_node_inputs(cache, n, None).values).ok
    /\ cache[n] = Eval(insts[n], n, renderer_node_inputs(cache, n, None).values).outputs

\* The nodes the camera pre-pass reaches besides the output node: those
\* linked to a non-scene input of the output, and everything upstream of them.
PrePassInputs == BackwardClosure(camera_input_nodes(io_node, TRUE))
\* The nodes whose instance is a graphics node.
GraphicsNodes == {n \in DOMAIN nodes : InstanceKind(nodes[n].node_type) = "Graphics"}
NoImpureNodes == \A n \in DOMAIN nodes : nodes[n].node_type # "impure"
\* The latest call was a render that followed a successful render with only
\* node_mut calls, on the nodes of `touched`, in between.
RenderedAfter(touched) ==
    last.op = "render" /\ last.pre.ok /\ last.pre.touched = touched /\ order # None

\* C8 as stated: a render call that follows a successful render with no graph
\* mutation in between, on a graph with no impure nodes, calls eval on no node.
C8_FullCacheHitEvaluatesNothing ==
    (RenderedAfter({}) /\ NoImpureNodes) => last.evals = <<>>

\* C8 amended: a render call that follows a successful render with no graph
\* mutation in between, on a graph with no impure nodes, evaluates the output
\* node in the camera pre-pass and nothing in the main loop when no node is
\* linked to a non-scene input of the output; in any case it evaluates no node
\* other than the output node, the nodes the pre-pass reaches through the
\* output's non-scene inputs, and the nodes downstream of those.
C8_CacheHitEvaluatesPrePassOnly ==
    (RenderedAfter({}) /\ NoImpureNodes) =>
        /\ Evaluated(last.evals) \subseteq {io_node} \cup ForwardClosure(PrePassInputs)
        /\ PrePassInputs = {} => last.evals = <<[node |-> io_node, pass |-> "camera"]>>

\* C8 witness: a successful render of an order of at least two nodes that
\* followed a successful render with nothing called in between, and evaluated
\* the output node in the pre-pass only.
C8_Witness ==
    /\ RenderedAfter({})
    /\ last.res = "Ok"
    /\ Len(order[1]) >= 2
    /\ last.evals = <<[node |-> io_node, pass |-> "camera"]>>

\* C9 as stated: after a successful render, node_mut on exactly one node n of
\* the order and a second render evaluate exactly n and the nodes downstream
\* of n in the order, and no other node.
C9_MutationEvaluatesDownstreamOnly ==
    \A n \in DOMAIN nodes :
        (RenderedAfter({n}) /\ n \in Range(order[1]) /\ last.res = "Ok")
        => Evaluated(last.evals) = Downstream(n) \cap Range(order[1])

\* C9 amended: after a successful render, node_mut on exactly one node n of
\* the order and a second, successful render evaluate n and every node
\* downstream of n in the order; the only other nodes evaluated are the output
\* node (in the camera pre-pass), the nodes the pre-pass reaches through the
\* output's non-scene inputs with the nodes downstream of those and, when n
\* is the output node, the graphics nodes with the nodes downstream of them.
C9_MutationEvaluatesDownstream ==
    \A n \in DOMAIN nodes :
        (RenderedAfter({n}) /\ n \in Range(order[1]) /\ NoImpureNodes /\ last.res = "Ok")
        => /\ Downstream(n) \cap Range(order[1]) \subseteq Evaluated(last.evals)
           /\ Evaluated(last.evals) \subseteq
                 (Downstream(n) \cup {io_node} \cup ForwardClosure(PrePassInputs)
                  \cup (IF n = io_node THEN ForwardClosure(GraphicsNodes) ELSE {}))
                 \cap Range(order[1])

\* C9 witness: a successful render after a successful render and node_mut on
\* one node other than the output; it evaluated that node and its downstream
\* nodes, at least two in all, and left another node of the order alone.
C9_Witness ==
    /\ last.op = "render"
    /\ last.res = "Ok"
    /\ order # None
    /\ \E n \in Range(order[1]) \ {io_node} :
          /\ RenderedAfter({n})
          /\ Evaluated(last.evals) = Downstream(n) \cap Range(order[1])
          /\ Cardinality(Evaluated(last.evals)) >= 2
          /\ Range(order[1]) \ Evaluated(last.evals) # {}

\* C10: every node of the order that is dirty when render begins, the output
\* node included, is purged and re-evaluated in that render, and so are its
\* consumers, so that its cache entry afterwards is the fresh output.
C10_DirtyNodesAreRefreshed ==
    [][(last'.op = "render" /\ last'.res = "Ok")
       => \A n \in Range(order'[1]) \cap dirty_nodes :
             \A m \in Downstream(n) \cap Range(order'[1]) :
                /\ m \in Evaluated(last'.evals)
                /\ FreshEntry(m)']_vars

\* C14 as stated: whenever has_order() is true, order() lists the nodes
\* backward-reachable from the output once each with the source of every link
\* before its destination; link, unlink, remove_node and set_output leave
\* has_order() false; a failed update_order leaves the order as it was.
C14_OrderIsValidWheneverPresent ==
    [][/\ OrderIsValid'
       /\ last'.op \in InvalidatingOps => order' = None
       /\ (last'.op = "update_order" /\ ~last'.ret) => order' = order]_vars

\* C14 amended: as above, except that the links whose source is the output
\* node itself, which close a cycle through the output and which the
\* ordering lets through, are not required to run forward in the order.
C14_OrderIsValidExceptOutputLinks ==
    [][/\ OrderIsValidExceptOutputLinks'
       /\ last'.op \in InvalidatingOps => order' = None
       /\ (last'.op = "update_order" /\ ~last'.ret) => order' = order]_vars

\* C14 witness: an order of two linked nodes is installed, after an earlier
\* order was invalidated by an edit.
C14_Witness ==
    /\ last.op = "update_order"
    /\ last.ret
    /\ order # None
    /\ Len(order[1]) >= 2
    /\ Edges # {}

\* C15: the order update_order installed holds every node backward-reachable
\* from the output along links, the output included, exactly once and no
\* other node; a node of the graph that is not backward-reachable from the
\* output is not in the order and is not evaluated by render.
C15_OrderIsExactlyOutputReachable ==
    /\ order # None =>
          /\ io_node \in Range(order[1])
          /\ \A n \in OutputReachable :
                Cardinality({i \in 1..Len(order[1]) : order[1][i] = n}) = 1
          /\ \A n \in DOMAIN nodes \ OutputReachable : n \notin Range(order[1])
          /\ Range(order[1]) \subseteq OutputReachable
    /\ last.op = "render" =>
          \A n \in DOMAIN nodes \ OutputReachable : n \notin Evaluated(last.evals)

\* C15 witness: a render ordered and evaluated a graph of at least two
\* linked nodes while another node of the graph was not reachable.
C15_Witness ==
    /\ last.op = "render"
    /\ order # None
    /\ Len(order[1]) >= 2
    /\ Len(last.evals) >= 2
    /\ DOMAIN nodes \ OutputReachable # {}

\* C16: after propagate_dirtiness the dirty set is exactly the set of nodes
\* reachable by following links forward, zero or more steps, from the nodes
\* that were dirty before the call; the walk ends also on cyclic links.
C16_DirtinessReachesExactlyDownstream ==
    [][PropagateDirtiness => dirty_nodes' = ForwardClosure(dirty_nodes)]_vars

\* C17: link(a,p,b,q) of a link that already exists leaves the links as they
\* are; a link that differs from the existing ones in a node or a port
\* is added next to them; and the reverse index holds one entry for each
\* (source, destination) pair, however many links join the pair.
C17_LinkIsIdempotent ==
    [][\A a \in NodeRefs, b \in NodeRefs, p \in Ports :
          LinkNodes(a, p, b, 0) =>
              /\ IF <<a, p, b, 0>> \in LinkTuples(fwd)
                 THEN fwd' = fwd
                 ELSE /\ Len(fwd') = Len(fwd) + 1
                      /\ LinkTuples(fwd') = LinkTuples(fwd) \cup {<<a, p, b, 0>>}
              /\ Cardinality({i \in 1..Len(fwd') : fwd'[i] = [key |-> LinkKey(a, b),
                                                             value |-> Link(p, 0)]}) = 1
              /\ Cardinality({i \in 1..Len(rev') : rev'[i].key = swap(LinkKey(a, b))}) = 1
              /\ \A i \in 1..Len(rev'), j \in 1..Len(rev') :
                    rev'[i].key = rev'[j].key => i = j]_vars

\* C17 witness: two links between the same two nodes that differ in the
\* output port, with a single reverse entry for the pair, after a link call.
C17_Witness ==
    /\ last.op = "link"
    /\ \E a \in NodeRefs, b \in NodeRefs :
          /\ {<<a, 0, b, 0>>, <<a, 1, b, 0>>} \subseteq LinkTuples(fwd)
          /\ Cardinality({i \in 1..Len(rev) : rev[i].key = swap(LinkKey(a, b))}) = 1

\* C11: when the eval of a node returns an error during render, render
\* returns Err(RenderError::Eval(r, _)) with r that node, the failed eval is
\* the last one of the call, so that no node later in the order is evaluated,
\* and no texture is returned.
C11_EvalErrorAbortsRender ==
    (last.op = "render" /\ last.failed # 0) =>
        /\ last.res = "Eval"
        /\ last.arg = last.failed
        /\ last.evals[Len(last.evals)].node = last.failed
        /\ (order # None /\ last.evals[Len(last.evals)].pass = "main") =>
              \A i \in 1..Len(last.evals) :
                  last.evals[i].pass = "main" =>
                      PositionIn(order[1], last.evals[i].node)
                          <= PositionIn(order[1], last.failed)
        /\ last.res # "Ok"

\* C11 witness: a render evaluated a node successfully and then stopped at a
\* failing node of the main loop with nodes of the order left unevaluated.
C11_Witness ==
    /\ last.op = "render"
    /\ last.failed # 0
    /\ Len(last.evals) >= 2
    /\ last.evals[Len(last.evals)].pass = "main"
    /\ order # None
    /\ \E n \in Range(order[1]) :
          /\ PositionIn(order[1], n) > PositionIn(order[1], last.failed)
          /\ n \notin DOMAIN cache

\* The nodes of the order that were dirty or downstream of a dirty node when
\* the latest call, a render aborted by a failed eval, started and whose eval
\* did not return Ok in it.
AbortLeftOver ==
    (Range(order[1]) \cap ForwardClosure(last.dirty0))
        \ (Evaluated(last.evals) \ {last.failed})
\* The latest call is a render that returned Ok and was owed nodes by
\* aborted renders before it: it evaluated each of them that is in its
\* order, and their cache entries are what their instances compute from the
\* present properties and inputs.
RetryMakesUp ==
    (last.op = "render" /\ last.res = "Ok") =>
        \A n \in last.pre.owed \cap Range(order[1]) :
            n \in Evaluated(last.evals) /\ FreshEntry(n)

C13_RenderAlwaysReturns ==
    last.op = "render" =>
        /\ last.res # "StackOverflow"
        /\ OutputReachableCycle => last.res # "Ok"

\* The step is a render call that collected garbage: it was the
\* CYCLES_UNTIL_GC-th to get past its evaluation loop.
GcPass == last'.op = "render" /\ cycle = CYCLES_UNTIL_GC - 1 /\ cycle' = 0

\* C18: a render that collects garbage evicts every cache entry and every
\* node instance whose NodeRef is not in the current order and none whose
\* NodeRef is in it; a render that does not collect removes no instance.
C18_GcEvictsExactlyUnordered ==
    [][last'.op = "render" =>
          IF GcPass
          THEN /\ DOMAIN cache' \subseteq Range(order'[1])
               /\ DOMAIN insts' \subseteq Range(order'[1])
               /\ \A n \in Range(order'[1]) : n \in DOMAIN cache' /\ n \in DOMAIN insts'
          ELSE DOMAIN insts \subseteq DOMAIN insts']_vars

\* C18 witness: a collecting render has evicted the instance of a node that
\* is still in the graph but no longer in the order.
C18_Witness ==
    /\ last.op = "render"
    /\ cycle = 0
    /\ last.res \in {"Ok", "NoScene"}
    /\ order # None
    /\ \E n \in DOMAIN nodes \ Range(order[1]) : n \in issued /\ n \notin DOMAIN insts
    /\ DOMAIN insts = Range(order[1])

\* C19: an instance is created only for a NodeRef that has none, from the
\* node's type, in a render that refers to the node; a later render leaves
\* the instance of a NodeRef as it is, also when the node has no cache entry,
\* until a collecting render finds the NodeRef absent from the order; no
\* other call touches the instances.
C19_InstanceCreatedOnceAndReused ==
    [][/\ last'.op # "render" => insts' = insts
       /\ \A n \in DOMAIN insts :
             IF n \in DOMAIN insts'
             THEN insts'[n] = insts[n]
             ELSE GcPass /\ n \notin Range(order'[1])
       /\ \A n \in DOMAIN insts' \ DOMAIN insts :
             /\ n \in DOMAIN nodes
             /\ insts'[n] = nodes[n].node_type
             /\ n \in OutputReachable]_vars

\* C19 witness: after several renders a node that was removed and added again
\* with another type still has the instance made for the first one, and an
\* instance exists for a node without a cache entry.
C19_Witness ==
    /\ last.op = "render"
    /\ cycle >= 2
    /\ \E n \in DOMAIN insts \cap DOMAIN nodes : insts[n] # nodes[n].node_type
    /\ \E n \in DOMAIN insts : n \notin DOMAIN cache

\* The nodes the main loop of the latest render evaluated.
MainEvaluated == {last.evals[i].node : i \in {j \in 1..Len(last.evals) : last.evals[j].pass = "main"}}
\* The nodes of the graph of an impure type.
ImpureNodes == {n \in DOMAIN nodes : nodes[n].node_type = "impure"}
\* The nodes the dirty loop of the latest render purged, the output node
\* counted with them when it was dirty: the dirty ones, the impure ones and,
\* with a dirty camera, the graphics nodes.
PurgedNodes ==
    last.dirty0 \cup ImpureNodes \cup (IF io_node \in last.dirty0 THEN GraphicsNodes ELSE {})
\* The latest call is a render that returned Ok and followed a render that
\* returned Ok with nothing but node_mut calls in between.
RenderedAgain == last.op = "render" /\ last.res = "Ok" /\ last.pre.ok /\ order # None
\* In such a render every impure node of the order is evaluated by the main
\* loop together with every node of the order downstream of it.
ImpureAlwaysEvaluated ==
    RenderedAgain =>
        \A n \in ImpureNodes \cap Range(order[1]) :
            Downstream(n) \cap Range(order[1]) \subseteq MainEvaluated

RenderCompleted == last.op = "render" /\ last.res \in {"Ok", "NoScene"} /\ order # None
\* The nodes of the order whose instance is a data node.
DataNodesInOrder == Range(order[1]) \ GraphicsNodes

LinksInto(links, port) == SelectSeq(links, LAMBDA l : l.link.in_prop = port)
\* The links whose producer has no cached value for the linked output port.
Uncached(links) ==
    {i \in 1..Len(links) :
        ~(links[i].node \in DOMAIN cache /\ links[i].link.out_prop \in DOMAIN cache[links[i].node])}
\* The result r of node_inputs for node n is assembled from the links: one
\* cached value per link at every linked port, the literal property value at
\* every property port without a link, nothing else; if some link has no
\* cached value, r is the error MissingInput of the port of such a link.
AssembledFrom(r, n, links) ==
    IF Uncached(links) = {}
    THEN /\ r.ok
         /\ DOMAIN r.input = {links[i].link.in_prop : i \in 1..Len(links)} \cup DOMAIN node_props(n)
         /\ \A port \in DOMAIN r.input :
               IF LinksInto(links, port) # <<>>
               THEN r.input[port] =
                        [i \in 1..Len(LinksInto(links, port)) |->
                            cache[LinksInto(links, port)[i].node]
                                 [LinksInto(links, port)[i].link.out_prop]]
               ELSE r.input[port] = <<node_props(n)[port]>>
    ELSE /\ ~r.ok
         /\ r.missing \in {links[i].link.in_prop : i \in Uncached(links)}
\* The argument ignore_prop of node_inputs in the two passes of render.
MainPass == None
PrePass(n) == IF n = io_node THEN Some(CAMERA_SCENE_INPUT_PROP) ELSE None
\* The links into n without those into the input port the pass ignores.
LinksRead(n, ignore_prop) ==
    SelectSeq(node_inputs(fwd, n), LAMBDA l : ignore_prop = None \/ l.link.in_prop # ignore_prop[1])

\* C22 as stated: the Input handed to a node, in the main loop and in the
\* camera pre-pass, holds for each linked input port one value per link from
\* the producer's cached output port and for each property port without a
\* link the literal property value; a link whose producer has no cached value
\* makes the evaluation fail with MissingInput of its port.
C22_InputFromLinksElseProps ==
    \A n \in DOMAIN nodes :
        /\ AssembledFrom(renderer_node_inputs(cache, n, MainPass), n, node_inputs(fwd, n))
        /\ AssembledFrom(renderer_node_inputs(cache, n, PrePass(n)), n, node_inputs(fwd, n))

\* C22 amended: as above in the main loop; in the camera pre-pass the links
\* into the scene input of the output node count as absent: that port holds
\* the output node's literal property value if it has one, and a producer
\* without a cached value there does not fail the evaluation.
C22_InputFromLinksReadElseProps ==
    \A n \in DOMAIN nodes :
        /\ AssembledFrom(renderer_node_inputs(cache, n, MainPass), n, node_inputs(fwd, n))
        /\ AssembledFrom(renderer_node_inputs(cache, n, PrePass(n)), n, LinksRead(n, PrePass(n)))

\* C22 witness: after a successful render, a node whose Input in the main
\* loop holds two linked values at one port and its literal at the other,
\* and an output node with a link into its scene input whose Input in the
\* pre-pass holds its literal there.
C22_Witness ==
    /\ last.op = "render"
    /\ last.res = "Ok"
    /\ \E n \in DOMAIN nodes, port \in Ports, other \in Ports :
          /\ Len(LinksInto(node_inputs(fwd, n), port)) = 2
          /\ LinksInto(node_inputs(fwd, n), other) = <<>>
          /\ Len(renderer_node_inputs(cache, n, MainPass).input[port]) = 2
          /\ renderer_node_inputs(cache, n, MainPass).input[other] = <<node_props(n)[other]>>
    /\ LinksInto(node_inputs(fwd, io_node), CAMERA_SCENE_INPUT_PROP) # <<>>
    /\ renderer_node_inputs(cache, io_node, PrePass(io_node)).input[CAMERA_SCENE_INPUT_PROP]
          = <<node_props(io_node)[CAMERA_SCENE_INPUT_PROP]>>

\* C23: add_node on an empty graph returns id 1 and otherwise the greatest
\* id present in the graph plus 1; the new node is in the graph and dirty.
C23_AddNodeReturnsGreatestPlusOne ==
    [][last'.op = "add_node"
       => /\ last'.arg = (IF DOMAIN nodes = {} THEN 1 ELSE Max(DOMAIN nodes) + 1)
          /\ DOMAIN nodes' = DOMAIN nodes \cup {last'.arg}
          /\ last'.arg \in dirty_nodes']_vars

\* C23 witness: add_node has returned an id greater than 1 for a graph
\* whose other node had been marked clean; the new node alone is dirty.
C23_Witness ==
    /\ last.op = "add_node"
    /\ last.arg > 1
    /\ DOMAIN nodes = {1, last.arg}
    /\ dirty_nodes = {last.arg}

\* C24: node_mut(n) marks n dirty on every call, whether or not the caller
\* changes a property, and a node leaves the dirty set in no call other than
\* render and mark_clean.
C24_NodeMutAlwaysMarksDirty ==
    [][/\ last'.op = "node_mut" => last'.arg \in dirty_nodes'
       /\ dirty_nodes \ dirty_nodes' # {} => last'.op \in {"render", "mark_clean"}]_vars

\* C24 witness: after a successful render that cleared its flag, node_mut was
\* called on a node of the order and left its properties as add_node had set
\* them; the node is dirty and no other node is.
C24_Witness ==
    /\ last.op = "node_mut"
    /\ since.ok
    /\ since.touched = {last.arg}
    /\ order # None
    /\ last.arg \in Range(order[1])
    /\ NodeProps(last.arg) = Node("gfx").props
    /\ dirty_nodes = {last.arg}

PrePassReturned ==
    /\ last.op = "render"
    /\ \E i \in 1..Len(last.evals) : last.evals[i] = [node |-> io_node, pass |-> "camera"]
    /\ last.failed = 0
    /\ last.res # "StackOverflow"
\* The cache of the output node holds a Camera at output port 0.
OutputHoldsCamera ==
    /\ io_node \in DOMAIN cache
    /\ CAMERA_DATA_OUTPUT_PROP \in DOMAIN cache[io_node]
    /\ cache[io_node][CAMERA_DATA_OUTPUT_PROP].tag = "any"
\* The latest render had no main-loop evaluation and cleared no dirty flag.
NothingResolved == MainEvaluated = {} /\ dirty_nodes = last.dirty0

\* C26 as stated: if after the camera pre-pass the cache of the output node
\* holds no Camera at output port 0, render returns NoCameraData, clears no
\* dirty flag and evaluates nothing in its main loop.
C26_NoCameraDataResolvesNothing ==
    (PrePassReturned /\ ~OutputHoldsCamera)
        => last.res = "NoCameraData" /\ NothingResolved

\* C26 amended: in that case render clears no dirty flag and evaluates
\* nothing in its main loop, and it returns NoCameraData unless the order
\* was invalid and update_order found a cycle: then it returns that
\* OrderError, which is raised before the camera value is looked up.
C26_NoCameraDataUnlessOrderError ==
    (PrePassReturned /\ ~OutputHoldsCamera)
        => /\ NothingResolved
           /\ last.res = (IF order = None THEN "OrderError" ELSE "NoCameraData")
           /\ order = None => ~update_order(fwd, io_node).ok

\* C26 witness: render has returned NoCameraData for an output node that
\* is a data node with a cached number, in an order of two or more nodes
\* that are all still dirty and, the output aside, not evaluated.
C26_Witness ==
    /\ PrePassReturned
    /\ last.res = "NoCameraData"
    /\ io_node \in DOMAIN cache
    /\ cache[io_node][CAMERA_DATA_OUTPUT_PROP].tag = "float"
    /\ order # None
    /\ Len(order[1]) >= 2
    /\ Range(order[1]) \subseteq dirty_nodes
    /\ Evaluated(last.evals) = {io_node}

\* C27: when the greatest node id of the graph is the greatest representable
\* id, add_node panics and leaves the graph as it was; in every other case it
\* returns an id that is greater than every id in the graph, so it never
\* wraps around to a small id and never returns an id that is in use.
C27_AddNodePanicsOnOverflow ==
    [][last'.op = "add_node"
       => IF DOMAIN nodes # {} /\ Max(DOMAIN nodes) = NodeRefMax
          THEN last'.res = "Panic" /\ nodes' = nodes /\ dirty_nodes' = dirty_nodes
          ELSE /\ last'.res # "Panic"
               /\ last'.arg \notin DOMAIN nodes
               /\ \A n \in DOMAIN nodes : last'.arg > n
               /\ last'.arg \in DOMAIN nodes']_vars

\* C27 witness: add_node has panicked on a graph that holds the node with
\* the greatest representable id and, after removals, fewer nodes than ids.
C27_Witness ==
    /\ last.op = "add_node"
    /\ last.res = "Panic"
    /\ NodeRefMax \in DOMAIN nodes
    /\ 1 \notin DOMAIN nodes

\* The outputs a node may hand to set_cache: what an instance of its type
\* writes for some property content.
FreshOutputs(n) ==
    {[port \in {0} |-> [tag |-> OutTag(nodes[n].node_type), node |-> n, props |-> k,
                        ins |-> <<>>]] : k \in 1..MaxCacheProps}
\* The transitive consumers of n.
Consumers(n) == ForwardClosure(Succs({n}))

C29_SetCacheInvalidatesOnlyOnChange ==
    \A n \in DOMAIN nodes \cap DOMAIN cache : \A fresh \in FreshOutputs(n) \cup {cache[n]} :
        /\ (Consumers(n) \cap DOMAIN cache) \ DOMAIN set_cache(cache, n, fresh) # {}
              => ~OutputsEq(cache[n], fresh)
        /\ OutputsEq(cache[n], fresh)
              => \A m \in Consumers(n) \cap DOMAIN cache :
                    /\ m \in DOMAIN set_cache(cache, n, fresh)
                    /\ set_cache(cache, n, fresh)[m] = cache[m]

\* The nodes the camera pass of the latest render evaluated.
CameraEvaluated ==
    {last.evals[i].node : i \in {j \in 1..Len(last.evals) : last.evals[j].pass = "camera"}}
\* The output node with the nodes backward-reachable from it through a link
\* into one of its inputs other than the scene input.
CameraReachable ==
    {io_node} \cup
    BackwardClosure({t[1] : t \in {u \in LinkTuples(fwd) :
                                    u[3] = io_node /\ u[4] # CAMERA_SCENE_INPUT_PROP}})
\* The camera pass evaluated data nodes only, all of them reachable from the
\* output without going through its scene input.
PrePassStaysOffScene ==
    last.op = "render" => CameraEvaluated \subseteq CameraReachable \ GraphicsNodes

RasterizingLinks(n) ==
    {l \in LinkTuples(fwd) :
        l[1] = n /\ l[3] \in GraphicsNodes /\ order # None /\ l[3] \in Range(order[1])}
\* The nodes the main loop of the latest render evaluated and cached.
MainCached == (MainEvaluated \ {last.failed}) \cap DOMAIN cache

\* C31: after a node is evaluated in the main loop, none of its cached output
\* ports that is linked to a graphics consumer holds a list of drawables,
\* whether the node is a data node or a graphics node.
C31_NoDrawablesReachGraphicsConsumers ==
    last.op = "render" =>
        \A n \in MainCached : \A l \in RasterizingLinks(n) :
            l[2] \in DOMAIN cache[n] => cache[n][l[2]].tag # "drawables"

\* --------------------------------------------------------- render contexts
\* The extent and resolution of a context.
Extent(c) == [offset |-> c.offset, width |-> c.width, resolution |-> c.resolution]
\* The extent render starts the propagation with: the camera's viewport at
\* the renderer's resolution.
CameraExtent == [offset |-> 0, width |-> 1, resolution |-> 1]
\* The extent a node of the order passes down to its inputs when e arrives.
PassedDown(m, e) ==
    IF nodes[m].node_type = "widen"
    THEN [e EXCEPT !.offset = @ - 1, !.width = @ + 2]
    ELSE e
\* The consumers of n in the order.
ConsumersInOrder(n) ==
    {l[3] : l \in {k \in LinkTuples(fwd) : k[1] = n}} \cap Range(order[1])
RECURSIVE Arriving(_)
\* The extents that arrive at a node of the order: the camera's at the output
\* node, and what each consumer passes down at any other node.
Arriving(n) ==
    IF n = io_node THEN {CameraExtent}
    ELSE UNION {{PassedDown(m, e) : e \in Arriving(m)} : m \in ConsumersInOrder(n)}
\* The union of extents: the least that covers each, at the greatest resolution.
UnionOfExtents(S) ==
    [offset |-> Min({e.offset : e \in S}),
     width |-> Max({e.offset + e.width : e \in S}) - Min({e.offset : e \in S}),
     resolution |-> Max({e.resolution : e \in S})]
\* The latest call was a render that went through context propagation.
Propagated == last.op = "render" /\ last.res \in {"Ok", "NoScene"} /\ order # None

\* C32: after context propagation the context recorded for a graphics node
\* is the merge of the contexts passed down by all of its consumers, not the
\* context of the consumer that reached it first.
C32_ContextIsUnionOverConsumers ==
    Propagated =>
        \A n \in DOMAIN ctx_cache \cap Range(order[1]) :
            Extent(ctx_cache[n]) = UnionOfExtents(Arriving(n))

\* ------------------------------------------------------- the cycle counter
\* The step is a render call that got past its evaluation loop.
RenderReachedGc == last'.op = "render" /\ last'.res \in {"Ok", "NoScene"}
\* The counter stays below CYCLES_UNTIL_GC and an increment stays within u8.
CycleInRange == cycle < CYCLES_UNTIL_GC /\ cycle + 1 <= CycleMax

\* C33 as stated: every render call counts, so that the collection runs on
\* exactly every CYCLES_UNTIL_GC-th render call, resetting the counter to 0;
\* the counter stays below CYCLES_UNTIL_GC and is never incremented past the
\* greatest u8.
C33_GcOnEvery128thRenderCall ==
    [][/\ CycleInRange /\ CycleInRange'
       /\ last'.op = "render" => cycle' = (cycle + 1) % CYCLES_UNTIL_GC
       /\ last'.op # "render" => cycle' = cycle]_vars

\* C33 amended: the render calls that get past their evaluation loop count,
\* a render call that returns an error before leaves the counter as it is;
\* the collection runs on exactly every CYCLES_UNTIL_GC-th counted call and
\* resets the counter to 0, and only a collecting call removes an instance;
\* the counter stays below CYCLES_UNTIL_GC and is never incremented past the
\* greatest u8.
C33_GcOnEvery128thCompletedRender ==
    [][/\ CycleInRange /\ CycleInRange'
       /\ RenderReachedGc => cycle' = (cycle + 1) % CYCLES_UNTIL_GC
       /\ ~RenderReachedGc => cycle' = cycle
       /\ (last'.op = "render" /\ cycle' # cycle)
             => IF cycle' = 0
                THEN DOMAIN insts' \subseteq Range(order'[1])
                ELSE DOMAIN insts \subseteq DOMAIN insts']_vars

\* C33 witness: a render call has collected, resetting the counter to 0 and
\* evicting the instance of a node that is still in the graph.
C33_Witness ==
    /\ last.op = "render"
    /\ last.res \in {"Ok", "NoScene"}
    /\ cycle = 0
    /\ \E n \in DOMAIN nodes : n \in issued /\ n \notin DOMAIN insts

\* ----------------------------------------------------- retrying the order
\* The links that form the cycle c: those from a listed node to the next.
ReportedLinks(c) ==
    {l \in LinkTuples(fwd) : \E i \in 1..Len(c) : l[1] = c[i] /\ l[3] = c[(i % Len(c)) + 1]}
\* The sources of the links of E into the nodes of S.
SourcesIn(E, S) == {l[1] : l \in {k \in E : k[3] \in S}}
RECURSIVE ReachingIn(_, _)
\* The nodes from which S is reached through links of E, S included.
ReachingIn(E, S) ==
    IF SourcesIn(E, S) \subseteq S THEN S ELSE ReachingIn(E, S \cup SourcesIn(E, S))
\* Among the links of E a cycle lies within backward reach of the output.
ReachableCycleIn(E) ==
    \E n \in ReachingIn(E, {io_node}) : n \in ReachingIn(E, SourcesIn(E, {n}))
RECURSIVE RetrySucceeds(_, _)
\* update_order returns Ok after unlink has been called on each link of S,
\* in whatever sequence the calls are made.
RetrySucceeds(ls, S) ==
    IF S = {} THEN update_order(ls.f, io_node).ok
    ELSE \A l \in S : RetrySucceeds(Links_remove(ls, l[1], l[3], Link(l[2], l[4])), S \ {l})

\* C34: a failed update_order leaves the nodes, the links, the output and the
\* dirty set as they are; and once unlink has been called on the links that
\* form the reported cycle, no other cycle being within backward reach of
\* the output, update_order succeeds.
C34_FailedOrderLeavesGraphRetryable ==
    [][(last'.op = "update_order" /\ ~last'.ret) =>
          /\ UNCHANGED <<nodes, fwd, rev, io_node, dirty_nodes>>
          /\ ~ReachableCycleIn(LinkTuples(fwd) \ ReportedLinks(last'.cycle))
                => RetrySucceeds([f |-> fwd, r |-> rev], ReportedLinks(last'.cycle))]_vars

\* ------------------------------------------------------ missing node types
\* The nodes whose node_type names no registered node type.
Unregistered == {n \in DOMAIN nodes : nodes[n].node_type \notin node_types}

InputsOfEntry(n) ==
    {<<cache[n][0].ins[i][1], cache[n][0].ins[i][2].node>> : i \in 1..Len(cache[n][0].ins)}
\* The (input port, producer) pairs of the links into n.
LinkedInputs(n) == {<<l[4], l[1]>> : l \in {k \in LinkTuples(fwd) : k[3] = n}}

\* C36: after a successful render every graphics node of the order has a
\* cached output computed from exactly the inputs it is linked to now: a node
\* whose incoming links were changed by link or unlink since its entry was
\* computed has been evaluated again.
C36_CacheFollowsLinks ==
    (last.op = "render" /\ last.res = "Ok") =>
        \A n \in Range(order[1]) \cap GraphicsNodes :
            n \in DOMAIN cache /\ InputsOfEntry(n) = LinkedInputs(n)

\* ------------------------------------------------- the camera of the context
\* C37: the camera of the contexts a render propagates is the one its camera
\* pre-pass computes from the present properties of the output node: after
\* node_mut has changed a property of the output node, the contexts of the
\* next render hold the camera with the new property.
C37_ContextHoldsCurrentCamera ==
    (last.op = "render" /\ last.res \in {"Ok", "NoScene"}) =>
        \A n \in DOMAIN ctx_cache :
            /\ ctx_cache[n].camera.node = io_node
            /\ ctx_cache[n].camera.props = NodeProps(io_node)

\* ------------------------------------------------------ the state render leaves
\* C38: after render has returned Ok on a graph without a cycle within
\* backward reach of the output, there is an order, every node of it has a
\* cache entry and none of them is marked dirty.
C38_OkLeavesOrderCachedAndClean ==
    (last.op = "render" /\ last.res = "Ok" /\ ~OutputReachableCycle) =>
        /\ order # None
        /\ \A n \in Range(order[1]) : n \in DOMAIN cache /\ n \notin dirty_nodes

\* C38 witness: render has returned Ok after node_mut calls on nodes of an
\* order of three nodes, some of which it has evaluated in its main loop.
C38_Witness ==
    /\ last.op = "render"
    /\ last.res = "Ok"
    /\ order # None
    /\ Len(order[1]) >= 3
    /\ last.dirty0 \cap Range(order[1]) # {}
    /\ cycle >= 2
    /\ MainEvaluated # {}
    /\ Range(order[1]) \subseteq DOMAIN cache \ dirty_nodes

\* --------------------------------------------------- instances and node types
\* C39: when render returns, every instance the renderer holds under a
\* NodeRef that is in the graph was created by the node type that the node's
\* node_type names now, also after a node was removed and another one added
\* and after node_mut has changed the node_type of a node.
C39_InstanceIsOfCurrentNodeType ==
    last.op = "render" =>
        \A n \in DOMAIN insts \cap DOMAIN nodes : insts[n] = nodes[n].node_type

\* The latest render inserted or removed a cache entry: the nodes that hold
\* one are not those that held one when it was called.
CacheEntriesChanged == DOMAIN cache' # DOMAIN cache

\* C40 as stated: when the graph has an output-reachable cycle, render returns
\* OrderError without having evaluated any node and without having inserted
\* or removed any cache entry.
C40_CycleFailsBeforeAnyEffect ==
    [][(last'.op = "render" /\ OutputReachableCycle) =>
          /\ last'.res = "OrderError"
          /\ last'.evals = <<>>
          /\ ~CacheEntriesChanged]_vars

\* C40 as the code has it: when the graph has an output-reachable cycle,
\* render never returns a scene (neither Ok nor NoScene), and it returns
\* OrderError exactly when the camera pre-pass returned and some cycle lies
\* off the output node; otherwise the pre-pass or the camera lookup has
\* failed or a recursion over the cycle has overflowed the stack.  The
\* pre-pass comes first: when render returns OrderError the output node has
\* been evaluated and holds a cache entry.  In every case the nodes evaluated
\* are among the output node and the nodes reached through its inputs other
\* than the scene input, every inserted entry is that of an evaluated node,
\* every removed entry that of a node downstream of one, the main loop has
\* evaluated nothing and no dirty flag has been cleared.
C40_CycleStopsRenderAfterPrePass ==
    [][(last'.op = "render" /\ OutputReachableCycle) =>
          /\ last'.res \notin {"Ok", "NoScene"}
          /\ (last'.res = "OrderError") <=> (PrePassReturned' /\ CycleOffOutput)
          /\ last'.res = "OrderError" => io_node \in DOMAIN cache'
          /\ Evaluated(last'.evals) \subseteq CameraReachable
          /\ (DOMAIN cache' \ DOMAIN cache) \subseteq Evaluated(last'.evals)
          /\ (DOMAIN cache \ DOMAIN cache') \subseteq ForwardClosure(Evaluated(last'.evals))
          /\ MainEvaluated' = {}
          /\ dirty_nodes' = dirty_nodes]_vars

\* A render of a graph with a cycle off the output node has returned
\* OrderError after its pre-pass evaluated the output node, whose outputs are
\* in the cache, while the main loop evaluated nothing.
C40_Witness ==
    /\ last.op = "render"
    /\ last.res = "OrderError"
    /\ CycleOffOutput
    /\ io_node \in CameraEvaluated
    /\ io_node \in DOMAIN cache
    /\ MainEvaluated = {}

====
